---- MODULE Spec2Model ----
(***************************************************************************)
(* A state-machine model of the PaginationPlus engine of                   *)
(* tiptap-pagination-plus.  Two revisions of the engine live in the        *)
(* repository and both are modelled, selected by the variable `revision`:  *)
(*   "base"        src/src/PaginationPlus.ts                               *)
(*   "responsive"  src/unnamed/part_001 (adds refreshPagination and the    *)
(*                 debounced resize observer)                              *)
(* JavaScript values that the validation of updatePageMargins must tell    *)
(* apart (numbers, NaN, strings, undefined) are modelled as tagged records.*)
(***************************************************************************)
EXTENDS Integers, Sequences, FiniteSets, TLC

VARIABLES
  revision,        \* which revision of the engine runs
  phase,           \* "constructed" | "created" | "destroyed"
  options,         \* this.options: the GeometryConfig
  styleElement,    \* this.storage.styleElement and its textContent
  currentWidth,    \* this.storage.currentWidth
  resizeTimeout,   \* this.storage.resizeTimeout: 0 (null) or a timer id
  timers,          \* the host's pending timers: set of [id, remaining]
  content,         \* scrollHeight of each content block of view.dom
  pagesEl,         \* the rendered "#pages" widget: sequence of page breaks
  sinceQualifying, \* time since the last accepted resize notification
  fires,           \* resize-timer dispatches since that notification
  minHeight,       \* view.dom.style.minHeight: Undefined until refreshPage sets it
  head,            \* style elements carrying data-rm-pagination-style in document.head
  mutationList,    \* records queued for the engine's MutationObserver: target of the first
  footnotePlugin,  \* the FootnotePlus plugin: document footnotes, plugin state, timers
  observed,        \* geometry and content as they were at the last accepted resize
  peer,            \* another editor of the same document, placed before this one
  last,            \* the last operation, its argument and its outcome
  probe            \* inputs and outputs of a direct estimator evaluation

vars == <<revision, phase, options, styleElement, currentWidth, resizeTimeout,
          timers, content, pagesEl, sinceQualifying, fires, minHeight, head,
          mutationList, footnotePlugin, observed, peer, last, probe>>

\* what the engine's own handlers neither read nor write: the browser's queue of
\* mutation records, the companion footnote plugin, the resize history and
\* the other editor of the document
companions == <<mutationList, footnotePlugin, observed, peer>>

-----------------------------------------------------------------------------
(* Bounds of the model *)

MaxBlocks == 2
MaxTimers == 2
TickStep == 50

(* Program constants *)

ExtraPages == 5
ResizeDelay == 150
ResizeThreshold == 5
DefaultPageHeight == 800
DefaultPageGap == 50
DefaultPageGapBorderSize == 1
DefaultPageHeaderHeight == 10
DefaultPageFooterHeight == 10
DefaultPageMarginLeft == 0
DefaultPageMarginRight == 0
MobileMarginCap == 10

-----------------------------------------------------------------------------
(* JavaScript values *)

Num(n) == [t |-> "number", v |-> n]
NaN == [t |-> "nan", v |-> 0]
Undefined == [t |-> "undefined", v |-> 0]
Str == [t |-> "string", v |-> 0]
Half(x) == IF x.t = "nan" THEN NaN ELSE [t |-> "half", v |-> x.v]

TypeOf(x) == IF x.t \in {"nan", "half"} THEN "number" ELSE x.t
LessThanZero(x) == x.t = "number" /\ x.v < 0
IsNaN(x) == x.t = "nan"

Add(a, b) == IF IsNaN(a) \/ IsNaN(b) THEN NaN ELSE Num(a.v + b.v)
Sub(a, b) == IF IsNaN(a) \/ IsNaN(b) THEN NaN ELSE Num(a.v - b.v)
Mul(a, b) == IF IsNaN(a) \/ IsNaN(b) THEN NaN ELSE Num(a.v * b.v)
MathMin(a, b) == IF IsNaN(a) \/ IsNaN(b) THEN NaN ELSE Num(IF a.v < b.v THEN a.v ELSE b.v)

\* Math.ceil(a / b) on integers, b /= 0
CeilDiv(a, b) == IF b > 0 THEN -((-a) \div b) ELSE -(a \div (-b))

Abs(x) == IF x < 0 THEN -x ELSE x
Min(a, b) == IF a < b THEN a ELSE b

RECURSIVE SumSeq(_)
SumSeq(s) == IF s = <<>> THEN 0 ELSE Head(s) + SumSeq(Tail(s))

-----------------------------------------------------------------------------
(* GeometryConfig and the footer-text source *)

Fields == {"left", "right", "top", "bottom"}

FixedFooter(s) == [kind |-> "string", s |-> s, a |-> <<>>]
ArrayFooter(a) == [kind |-> "array", s |-> "", a |-> a]
FunctionFooter == [kind |-> "function", s |-> "", a |-> <<>>]

\* the function source used by the model: i => "Page " + i
FooterFunction(i) == "Page " \o ToString(i)

FooterSources == {FixedFooter("Draft"), ArrayFooter(<<"A", "B">>), FunctionFooter}

addOptions(footer) ==
  [pageHeight |-> DefaultPageHeight,
   pageGap |-> DefaultPageGap,
   pageGapBorderSize |-> DefaultPageGapBorderSize,
   pageHeaderHeight |-> Num(DefaultPageHeaderHeight),
   pageFooterHeight |-> Num(DefaultPageFooterHeight),
   pageMarginLeft |-> Num(DefaultPageMarginLeft),
   pageMarginRight |-> Num(DefaultPageMarginRight),
   footerText |-> footer]

\* pageOptions.pageHeight - (_pageHeaderHeight + _pageFooterHeight)
ContentBand(o) == Sub(Num(o.pageHeight), Add(o.pageHeaderHeight, o.pageFooterHeight))

-----------------------------------------------------------------------------
(* The injected style rules: the geometry values substituted into the text *)

NoStyle ==
  [paddingRight |-> Undefined, paddingLeft |-> Undefined,
   footerHeight |-> Undefined, headerHeight |-> Undefined,
   bandSideMargin |-> Undefined,
   numberRightPlus |-> Undefined, numberRightMinus |-> Undefined,
   textLeft |-> Undefined, textLeftPlus |-> Undefined,
   breakerExtra |-> Undefined, tableMaxHeight |-> Undefined,
   mobilePaddingRight |-> Undefined, mobilePaddingLeft |-> Undefined,
   mobileBreakerExtra |-> Undefined]

\* responsive revision: updateStyles' template
ResponsiveStyle(o) ==
  [NoStyle EXCEPT
     !.paddingRight = o.pageMarginRight,
     !.paddingLeft = o.pageMarginLeft,
     !.footerHeight = o.pageFooterHeight,
     !.headerHeight = o.pageHeaderHeight,
     !.numberRightPlus = o.pageMarginRight,
     !.textLeft = o.pageMarginLeft,
     !.breakerExtra = Add(o.pageMarginLeft, o.pageMarginRight),
     !.tableMaxHeight = ContentBand(o),
     !.mobilePaddingRight = MathMin(o.pageMarginRight, Num(MobileMarginCap)),
     !.mobilePaddingLeft = MathMin(o.pageMarginLeft, Num(MobileMarginCap)),
     !.mobileBreakerExtra = Add(MathMin(o.pageMarginLeft, Num(MobileMarginCap)),
                                MathMin(o.pageMarginRight, Num(MobileMarginCap)))]

\* base revision: the template written by onCreate
BaseCreateStyle(o) ==
  [NoStyle EXCEPT
     !.paddingRight = o.pageMarginRight,
     !.footerHeight = o.pageFooterHeight,
     !.headerHeight = o.pageHeaderHeight,
     !.bandSideMargin = Half(o.pageMarginRight),
     !.numberRightPlus = o.pageMarginLeft,
     !.numberRightMinus = Half(o.pageMarginRight),
     !.textLeft = o.pageMarginLeft,
     !.textLeftPlus = Half(o.pageMarginRight),
     !.tableMaxHeight = ContentBand(o)]

\* base revision: the template written by updatePageMargins
BaseUpdateStyle(o) ==
  [BaseCreateStyle(o) EXCEPT !.numberRightPlus = o.pageMarginRight]

NoStyleElement == [present |-> FALSE, attached |-> FALSE, textContent |-> NoStyle]

\* mutant: the style rules are never rewritten
updateStylesSkipped(el, o) == el

\* updateStyles(extension): a no-op while storage.styleElement is null
updateStyles(el, o) ==
  IF ~el.present THEN el ELSE [el EXCEPT !.textContent = ResponsiveStyle(o)]

\* the inline style update of the base revision's updatePageMargins
BaseRewriteStyle(el, o) ==
  IF ~el.present THEN el ELSE [el EXCEPT !.textContent = BaseUpdateStyle(o)]

RewriteStyle(rev, el, o) ==
  IF rev = "base" THEN BaseRewriteStyle(el, o) ELSE updateStyles(el, o)

-----------------------------------------------------------------------------
(* Page Count Estimator: the first half of createDecoration's widget *)

Infinity == [t |-> "infinity", v |-> 0]

\* mutant: the headroom is not taken off the previous break count
PreviousPageCountWhole(domPages) == domPages

\* previousPageCount > _extraPages ? previousPageCount - _extraPages : 0
PreviousPageCount(domPages) ==
  IF domPages > ExtraPages THEN domPages - ExtraPages ELSE 0

\* mutant: the operands of the subtraction exchanged
ActualPageContentHeightSwapped(totalHeight, domPages, o) ==
  LET totalPageGap == Add(Add(Num(o.pageGap), o.pageHeaderHeight), o.pageFooterHeight)
  IN  Sub(Mul(Num(PreviousPageCount(domPages)),
              Add(totalPageGap, Num(o.pageGapBorderSize * 2))),
          Num(totalHeight))

\* totalHeight - previousPageCount * (totalPageGap + pageGapBorderSize * 2)
ActualPageContentHeight(totalHeight, domPages, o) ==
  LET totalPageGap == Add(Add(Num(o.pageGap), o.pageHeaderHeight), o.pageFooterHeight)
  IN  Sub(Num(totalHeight),
          Mul(Num(PreviousPageCount(domPages)),
              Add(totalPageGap, Num(o.pageGapBorderSize * 2))))

\* pages = Math.ceil(actual / _pageHeight); pages = pages > 0 ? pages - 1 : 0
EstimatePages(totalHeight, domPages, o) ==
  LET band == ContentBand(o)
      actual == ActualPageContentHeight(totalHeight, domPages, o)
  IN  IF IsNaN(band) \/ IsNaN(actual) THEN Num(0)
      ELSE IF band.v = 0
        THEN (IF actual.v > 0 THEN Infinity ELSE Num(0))
      ELSE LET pages == CeilDiv(actual.v, band.v)
           IN  Num(IF pages > 0 THEN pages - 1 ELSE 0)

-----------------------------------------------------------------------------
(* Page Break Synthesizer: createPageBreak and the loop that calls it *)

\* mutant: no fallback to the last entry
ArrayFooterTextOwn(a, pageIndex) ==
  IF pageIndex + 1 \in DOMAIN a THEN a[pageIndex + 1] ELSE ""

\* footerText[pageIndex] || footerText[footerText.length - 1] || ""
ArrayFooterText(a, pageIndex) ==
  LET own == IF pageIndex + 1 \in DOMAIN a THEN a[pageIndex + 1] ELSE ""
      final == IF Len(a) > 0 THEN a[Len(a)] ELSE ""
  IN  IF own /= "" THEN own ELSE final

\* mutant: a fixed string is suffixed with the page number
ResolveFooterTextNumbered(src, pageIndex) ==
  CASE src.kind = "string" -> src.s \o ToString(pageIndex + 1)
    [] src.kind = "array" -> ArrayFooterText(src.a, pageIndex)
    [] src.kind = "function" -> FooterFunction(pageIndex + 1)
    [] OTHER -> ""

\* mutant: the function is handed the 0-based page index
ResolveFooterTextZeroBased(src, pageIndex) ==
  CASE src.kind = "string" -> src.s
    [] src.kind = "array" -> ArrayFooterText(src.a, pageIndex)
    [] src.kind = "function" -> FooterFunction(pageIndex)
    [] OTHER -> ""

ResolveFooterText(src, pageIndex) ==
  CASE src.kind = "string" -> src.s
    [] src.kind = "array" -> ArrayFooterText(src.a, pageIndex)
    [] src.kind = "function" -> FooterFunction(pageIndex + 1)
    [] OTHER -> ""

\* a footer as createPageBreak leaves it: no ".footnote-container" child
NoContainer == [present |-> FALSE, items |-> <<>>]

createPageBreak(firstPage, pageIndex, o) ==
  [pageIndex |-> pageIndex,
   firstPage |-> firstPage,
   marginTop |-> IF firstPage THEN Add(o.pageHeaderHeight, ContentBand(o)) ELSE ContentBand(o),
   footerHeight |-> o.pageFooterHeight,
   footerText |-> ResolveFooterText(o.footerText, pageIndex),
   gapHeight |-> o.pageGap,
   headerHeight |-> o.pageHeaderHeight,
   marginLeft |-> o.pageMarginLeft,
   marginRight |-> o.pageMarginRight,
   lastPage |-> FALSE,
   footnoteContainer |-> NoContainer]

\* mutant: the loop stops one descriptor early
SynthesizeShort(n, o) ==
  [i \in 1..(n + ExtraPages - 1) |-> createPageBreak(i = 1, i - 1, o)]

\* for (let i = 0; i < pages + _extraPages; i++) fragment.appendChild(createPageBreak(...))
Synthesize(n, o) ==
  [i \in 1..(n + ExtraPages) |-> createPageBreak(i = 1, i - 1, o)]

\* for (let i = 2; i < childElements.length - 1; i++) totalHeight += scrollHeight
TotalHeight(blocks) == SumSeq(blocks)

\* mutant: the page count is estimated without sampling the content's height
createDecorationUnsampled(blocks, domPages, o) ==
  Synthesize(EstimatePages(0, domPages, o).v, o)

\* the widget rendered by createDecoration over the live DOM
createDecoration(blocks, domPages, o) ==
  Synthesize(EstimatePages(TotalHeight(blocks), domPages, o).v, o)

\* the page loop never ends when the estimate is Infinity
Diverges(blocks, domPages, o) ==
  EstimatePages(TotalHeight(blocks), domPages, o) = Infinity

-----------------------------------------------------------------------------
(* Page Boundary Index: refreshPage.  The offsets it reads (offsetTop of   *)
(* each ".page" element and of each content element) are measurements of   *)
(* the rendered layout; a break hidden by the ".last-page ~ .rm-page-break"*)
(* rule measures 0.                                                        *)

\* pageElements.map(el => el.offsetTop).filter(top => top !== 0), then push(Infinity)
Boundaries(rawTops) ==
  LET kept == SelectSeq(rawTops, LAMBDA t : t /= 0)
  IN  [i \in 1..Len(kept) |-> Num(kept[i])] \o <<Infinity>>

\* top >= pageTops[j]
AtOrBelow(top, b) == b.t /= "infinity" /\ top >= b.v

\* top < pageTops[j + 1]
Above(top, b) == b.t = "infinity" \/ top < b.v

\* mutant: the bucket is numbered j in place of j + 1
ClassifyZeroBased(top, B) ==
  LET hits == {j \in 0..(Len(B) - 2) : AtOrBelow(top, B[j + 1]) /\ Above(top, B[j + 2])}
  IN  IF hits = {} THEN 0
      ELSE (CHOOSE j \in hits : \A h \in hits : j <= h)

\* mutant: an element above the first page top is put on the first page
ClassifyFirstPage(top, B) ==
  LET hits == {j \in 0..(Len(B) - 2) : AtOrBelow(top, B[j + 1]) /\ Above(top, B[j + 2])}
  IN  IF hits = {} THEN 1
      ELSE (CHOOSE j \in hits : \A h \in hits : j <= h) + 1

\* the inner loop: the first j with pageTops[j] <= top < pageTops[j + 1] adds
\* j + 1 to pagesWithContent; 0 stands for "nothing added"
Classify(top, B) ==
  LET hits == {j \in 0..(Len(B) - 2) : AtOrBelow(top, B[j + 1]) /\ Above(top, B[j + 2])}
  IN  IF hits = {} THEN 0
      ELSE (CHOOSE j \in hits : \A h \in hits : j <= h) + 1

\* the outer loop over the content elements
ClassifyAll(contentTops, rawTops) ==
  [k \in DOMAIN contentTops |-> Classify(contentTops[k], Boundaries(rawTops))]

\* pagesWithContent.size > 0 ? Math.max(...pagesWithContent) : 0
MaxPage(classes) ==
  LET pagesWithContent == {classes[k] : k \in DOMAIN classes} \ {0}
  IN  IF pagesWithContent = {} THEN 0
      ELSE CHOOSE m \in pagesWithContent : \A q \in pagesWithContent : q <= m

\* mutant: one page fewer
MinHeightOfTight(maxPage, o) ==
  (maxPage + 1) * o.pageHeight + maxPage * (o.pageGap + 2 * o.pageGapBorderSize)

\* _maxPage * pageHeight + (_maxPage - 1) * (pageGap + 2 * pageGapBorderSize), _maxPage = maxPage + 2
MinHeightOf(maxPage, o) ==
  (maxPage + 2) * o.pageHeight + (maxPage + 1) * (o.pageGap + 2 * o.pageGapBorderSize)

\* if (maxPage + 1 < target.children.length) target.children[maxPage + 1].classList.add("last-page")
MarkLastPage(w, maxPage) ==
  IF maxPage + 1 < Len(w) THEN [w EXCEPT ![maxPage + 2].lastPage = TRUE] ELSE w

\* responsive revision: every breaker's width and margins are rewritten from the options
UpdateBreakers(rev, w, o) ==
  IF rev = "responsive"
    THEN [i \in DOMAIN w |->
            [w[i] EXCEPT !.marginLeft = o.pageMarginLeft, !.marginRight = o.pageMarginRight]]
    ELSE w

\* the widget after refreshPage has run over the measured layout
refreshPageWidget(rev, w, layout, o) ==
  UpdateBreakers(rev, MarkLastPage(w, MaxPage(ClassifyAll(layout.contentTops, layout.pageTops))), o)

\* view.dom.style.minHeight after refreshPage has run over the measured layout
refreshPageMinHeight(layout, o) ==
  Num(MinHeightOf(MaxPage(ClassifyAll(layout.contentTops, layout.pageTops)), o))

\* Array.from(targetNode.children).find(child => child.id === "pages"): an
\* empty sequence stands for a container without the widget
HasTarget(w) == w /= <<>>

\* mutant: the minimum height is written without looking for the widget
MinHeightAfterUnguarded(w, layout, o, old) == refreshPageMinHeight(layout, o)

\* if (!target) return, before view.dom.style.minHeight is written
MinHeightAfter(w, layout, o, old) ==
  IF HasTarget(w) THEN refreshPageMinHeight(layout, o) ELSE old

\* a measured layout fits the DOM it was measured on
Measures(layout, w, blocks) ==
  /\ Len(layout.pageTops) = Len(w)
  /\ Len(layout.contentTops) = Len(blocks)

-----------------------------------------------------------------------------
(* The argument of updatePageMargins.  A primitive argument has no own     *)
(* properties, so reading left/right/top/bottom from it yields undefined.  *)

MarginObject(l, r, t, b) == [kind |-> "object", left |-> l, right |-> r, top |-> t, bottom |-> b]
NonObject(kind) == [kind |-> kind, left |-> Undefined, right |-> Undefined,
                    top |-> Undefined, bottom |-> Undefined]
NoArgument == NonObject("none")

\* !margins || typeof margins !== "object"   (base revision only)
RejectsNonObject(m) == m.kind /= "object"

\* const { left, right, top, bottom } = margins   throws a TypeError on null and undefined
DestructuringThrows(m) == m.kind \in {"null", "undefined"}

\* x !== undefined && (typeof x !== "number" || x < 0)
InvalidMargin(x) == x /= Undefined /\ (TypeOf(x) /= "number" \/ LessThanZero(x))

\* the four checks in source order; each returns false on failure
ValidationFails(m) ==
  \/ InvalidMargin(m.left)
  \/ InvalidMargin(m.right)
  \/ InvalidMargin(m.top)
  \/ InvalidMargin(m.bottom)

\* the value the command returns, or "throw"
updatePageMarginsResult(rev, m) ==
  IF rev = "base" /\ RejectsNonObject(m) THEN "false"
  ELSE IF rev = "responsive" /\ DestructuringThrows(m) THEN "throw"
  ELSE IF ValidationFails(m) THEN "false"
  ELSE "true"

\* mutant: top and bottom written to each other's field
ApplyMarginsSwapped(o, m) ==
  [o EXCEPT
     !.pageMarginLeft = IF m.left /= Undefined THEN m.left ELSE @,
     !.pageMarginRight = IF m.right /= Undefined THEN m.right ELSE @,
     !.pageHeaderHeight = IF m.bottom /= Undefined THEN m.bottom ELSE @,
     !.pageFooterHeight = IF m.top /= Undefined THEN m.top ELSE @]

\* if (left !== undefined) this.options.pageMarginLeft = left  ... and so on
ApplyMargins(o, m) ==
  [o EXCEPT
     !.pageMarginLeft = IF m.left /= Undefined THEN m.left ELSE @,
     !.pageMarginRight = IF m.right /= Undefined THEN m.right ELSE @,
     !.pageHeaderHeight = IF m.top /= Undefined THEN m.top ELSE @,
     !.pageFooterHeight = IF m.bottom /= Undefined THEN m.bottom ELSE @]

-----------------------------------------------------------------------------
(* Transactions and the plugin state's apply *)

NoTr == [dispatched |-> FALSE, docChanged |-> FALSE, pagination |-> FALSE, resize |-> FALSE]
Tr(doc, pag, res) == [dispatched |-> TRUE, docChanged |-> doc, pagination |-> pag, resize |-> res]

\* mutant: the resize tag is not looked at
ShouldRecomputeNoResize(rev, tr) == tr.docChanged \/ tr.pagination

\* mutant: every transaction recomputes
ShouldRecomputeAlways(rev, tr) == TRUE

\* tr.docChanged || tr.getMeta(pagination_meta_key) [|| tr.getMeta(resize_meta_key)]
ShouldRecompute(rev, tr) ==
  IF rev = "base"
    THEN tr.docChanged \/ tr.pagination
    ELSE tr.docChanged \/ tr.pagination \/ tr.resize

\* document.querySelector("[data-rm-pagination]").children.length: the query
\* is made on the document, so it finds the first widget in document order,
\* the other editor's when one precedes this editor
PaginationElement(own, other) ==
  IF other.present THEN other.rendered ELSE Len(own)

\* apply(tr, oldDeco, oldState, newState) followed by the view's redraw of the widget
apply(rev, tr, oldPages, domPages, blocks, o) ==
  IF ShouldRecompute(rev, tr)
    THEN createDecoration(blocks, domPages, o)
    ELSE oldPages

Op(name) ==
  [op |-> name, result |-> "none", arg |-> NoArgument, tr |-> NoTr,
   rebuilt |-> FALSE, width |-> 0, elapsed |-> 0, burst |-> 0,
   pageTops |-> <<>>, contentTops |-> <<>>, classes |-> <<>>,
   sampled |-> 0, estimated |-> Num(0), previous |-> Undefined]

\* editor.view.dispatch(tr) over the content `blocks` and the geometry `o`
Dispatch(tr, blocks, o, record, nextPhase) ==
  IF ShouldRecompute(revision, tr) /\ Diverges(blocks, PaginationElement(pagesEl, peer), o)
    THEN /\ phase' = "hung"
         /\ pagesEl' = pagesEl
         /\ last' = [record EXCEPT !.tr = tr, !.result = "none"]
    ELSE /\ phase' = nextPhase
         /\ pagesEl' = apply(revision, tr, pagesEl, PaginationElement(pagesEl, peer), blocks, o)
         /\ last' = IF ShouldRecompute(revision, tr)
                      THEN [record EXCEPT
                              !.tr = tr, !.rebuilt = TRUE,
                              !.sampled = TotalHeight(blocks),
                              !.estimated = EstimatePages(TotalHeight(blocks),
                                                          PaginationElement(pagesEl, peer), o)]
                      ELSE [record EXCEPT !.tr = tr]

-----------------------------------------------------------------------------
(* Inputs of the environment *)

Revisions == {"base", "responsive"}

\* the calls the engine is driven with
MarginCalls ==
  {MarginObject(Undefined, Undefined, Num(20), Undefined),
   MarginObject(Num(20), Undefined, Undefined, Num(30)),
   MarginObject(Undefined, Num(20), Undefined, Undefined),
   MarginObject(Num(10), Undefined, Num(-1), Undefined),
   MarginObject(Undefined, Str, Undefined, Num(20)),
   MarginObject(NaN, Undefined, Undefined, Undefined),
   NonObject("null"), NonObject("undefined"), NonObject("primitive")}

\* calls whose fields are all non-negative numbers: two that keep the content
\* band positive and one that leaves no content band at all
GeometryCalls ==
  {MarginObject(Undefined, Undefined, Num(20), Undefined),
   MarginObject(Undefined, Undefined, Undefined, Num(30)),
   MarginObject(Undefined, Undefined, Num(400), Num(400))}

\* the one call made while the resize observer is studied
FewMarginCalls == {MarginObject(Undefined, Undefined, Num(20), Undefined)}

BlockHeights == {400, 851}

Documents == UNION {[1..n -> BlockHeights] : n \in 0..MaxBlocks}

FewDocuments == {<<>>, <<851>>, <<400, 851>>}

Widths == {1000, 1005, 1006}

FewWidths == {1000, 1006}

ElapsedCap == ResizeDelay + TickStep

\* offsetTop of n rendered ".page" elements, none hidden
NaturalTops(n) == [i \in 1..n |-> 900 * i]

\* a layout: the measured offsetTop of every ".page" element and of every content element
Layout(pageTops, contentTops) == [pageTops |-> pageTops, contentTops |-> contentTops]

\* layouts of n breaks and k content elements, the first j of them above the first break
Layouts(n, k) ==
  {Layout(NaturalTops(n), [i \in 1..k |-> IF i <= j THEN 100 ELSE 950]) : j \in 0..k}

\* the layout with every content element above the first break
FewLayouts(n, k) == {Layout(NaturalTops(n), [i \in 1..k |-> 100])}

-----------------------------------------------------------------------------
(* Initial state: the editor is constructed, the plugin state initialised  *)
(* and the widget drawn over a mount that has no content yet.              *)

InitEngine ==
  /\ revision \in Revisions
  /\ phase = "constructed"
  /\ \E f \in FooterSources : options = addOptions(f)
  /\ styleElement = NoStyleElement
  /\ currentWidth = 0
  /\ resizeTimeout = 0
  /\ timers = {}
  /\ content = <<>>
  /\ pagesEl = createDecoration(<<>>, 0, options)
  /\ sinceQualifying = ElapsedCap
  /\ fires = 0
  /\ minHeight = Undefined
  /\ head = 0
  /\ last = Op("init")

\* the footnote plugin of an editor that has none
NoFootnotes ==
  [installed |-> FALSE, doc |-> <<>>, footnotes |-> <<>>, shown |-> <<>>,
   initialTimer |-> FALSE, updateTimer |-> FALSE, interval |-> FALSE]

NoSnapshot == [taken |-> FALSE, o |-> addOptions(FixedFooter("")), blocks |-> <<>>]

NoProbe ==
  [H1 |-> 0, H2 |-> 0, P |-> 0, P2 |-> 0, o |-> addOptions(FixedFooter("")),
   r1 |-> 0, r2 |-> 0, out1 |-> <<>>, out2 |-> <<>>, counts |-> <<>>, done |-> FALSE]

\* no record queued, no footnote plugin installed, no resize observed
\* no other editor in the document
NoPeer == [present |-> FALSE, rendered |-> 0, updateTimer |-> FALSE]

NoCompanions ==
  /\ mutationList = <<>>
  /\ footnotePlugin = NoFootnotes
  /\ observed = NoSnapshot
  /\ peer = NoPeer

Init == InitEngine /\ NoCompanions /\ probe = NoProbe

Alive == phase \in {"constructed", "created"}

-----------------------------------------------------------------------------
(* Lifecycle *)

\* onCreate ends with a synchronous refreshPage(targetNode); the base revision
\* then dispatches the pagination transaction
onCreate(clientWidths, layouts) ==
  /\ phase = "constructed"
  /\ \E layout \in layouts :
       /\ Measures(layout, pagesEl, content)
       /\ minHeight' = MinHeightAfter(pagesEl, layout, options, minHeight)
       /\ LET record == [Op("onCreate") EXCEPT
                           !.pageTops = layout.pageTops,
                           !.contentTops = layout.contentTops,
                           !.classes = ClassifyAll(layout.contentTops, layout.pageTops),
                           !.previous = minHeight]
          IN  IF revision = "responsive"
                THEN /\ \E w \in clientWidths : currentWidth' = w
                     /\ styleElement' = updateStyles([present |-> TRUE, attached |-> TRUE,
                                                      textContent |-> NoStyle], options)
                     /\ phase' = "created"
                     /\ last' = record
                     /\ pagesEl' = refreshPageWidget(revision, pagesEl, layout, options)
                ELSE /\ currentWidth' = currentWidth
                     /\ styleElement' = [present |-> TRUE, attached |-> TRUE,
                                         textContent |-> BaseCreateStyle(options)]
                     /\ Dispatch(Tr(FALSE, TRUE, FALSE), content, options, record, "created")
  /\ head' = head + 1
  /\ UNCHANGED <<revision, options, resizeTimeout, timers, content, sinceQualifying, fires, probe>>

\* mutant: the pending timer is not cleared
clearTimeoutSkipped(pending, id) == pending

\* clearTimeout(id)
clearTimeout(pending, id) == {t \in pending : t.id /= id}

\* mutant: the style element is left in the document
onDestroyLeaking ==
  /\ Alive
  /\ phase' = "destroyed"
  /\ timers' = IF revision = "responsive" /\ resizeTimeout /= 0
                 THEN clearTimeout(timers, resizeTimeout) ELSE timers
  /\ last' = Op("onDestroy")
  /\ UNCHANGED <<head, styleElement, minHeight, revision, options, currentWidth, resizeTimeout,
                 content, pagesEl, sinceQualifying, fires, probe>>

onDestroy ==
  /\ Alive
  /\ phase' = "destroyed"
  /\ timers' = IF revision = "responsive" /\ resizeTimeout /= 0
                 THEN clearTimeout(timers, resizeTimeout) ELSE timers
  /\ styleElement' = IF styleElement.present THEN [styleElement EXCEPT !.attached = FALSE]
                     ELSE styleElement
  /\ head' = IF styleElement.present /\ styleElement.attached THEN head - 1 ELSE head
  /\ last' = Op("onDestroy")
  /\ UNCHANGED <<minHeight, revision, options, currentWidth, resizeTimeout, content, pagesEl,
                 sinceQualifying, fires, probe>>

-----------------------------------------------------------------------------
(* Commands *)

updatePageMargins(m) ==
  /\ Alive
  /\ LET result == updatePageMarginsResult(revision, m)
         record == [Op("updatePageMargins") EXCEPT !.arg = m, !.result = result]
     IN  IF result = "true"
           THEN /\ options' = ApplyMargins(options, m)
                /\ styleElement' = RewriteStyle(revision, styleElement, options')
                /\ Dispatch(Tr(FALSE, TRUE, FALSE), content, options', record, phase)
           ELSE /\ last' = record
                /\ UNCHANGED <<options, styleElement, phase, pagesEl>>
  /\ UNCHANGED <<head, minHeight, revision, currentWidth, resizeTimeout, timers, content,
                 sinceQualifying, fires, probe>>

\* mutant: the refresh also restores the default geometry
refreshPaginationResetting ==
  /\ Alive
  /\ revision = "responsive"
  /\ options' = addOptions(options.footerText)
  /\ Dispatch(Tr(FALSE, FALSE, TRUE), content, options',
              [Op("refreshPagination") EXCEPT !.result = "true"], phase)
  /\ UNCHANGED <<head, minHeight, revision, styleElement, currentWidth, resizeTimeout, timers,
                 content, sinceQualifying, fires, probe>>

refreshPagination ==
  /\ Alive
  /\ revision = "responsive"
  /\ Dispatch(Tr(FALSE, FALSE, TRUE), content, options,
              [Op("refreshPagination") EXCEPT !.result = "true"], phase)
  /\ UNCHANGED <<head, minHeight, revision, options, styleElement, currentWidth, resizeTimeout, timers,
                 content, sinceQualifying, fires, probe>>

-----------------------------------------------------------------------------
(* Transactions of the host editor *)

\* a content edit: the blocks change and the transaction has docChanged set
DocumentChanged(blocks) ==
  /\ Alive
  /\ content' = blocks
  /\ Dispatch(Tr(TRUE, FALSE, FALSE), blocks, options, Op("docChanged"), phase)
  /\ UNCHANGED <<head, minHeight, revision, options, styleElement, currentWidth, resizeTimeout, timers,
                 sinceQualifying, fires, probe>>

\* any other transaction (selection, another plugin's meta)
Unrelated ==
  /\ Alive
  /\ Dispatch(Tr(FALSE, FALSE, FALSE), content, options, Op("unrelated"), phase)
  /\ UNCHANGED <<head, minHeight, revision, options, styleElement, currentWidth, resizeTimeout, timers,
                 content, sinceQualifying, fires, probe>>

-----------------------------------------------------------------------------
(* The mutation observer: refreshPage over the layout it measures *)

\* refreshPage(targetNode), run while the editor is in one of the given phases:
\* the function itself never asks whether the editor is still alive
refreshPageIn(layout, phases) ==
  /\ phase \in phases
  /\ Measures(layout, pagesEl, content)
  /\ pagesEl' = refreshPageWidget(revision, pagesEl, layout, options)
  /\ minHeight' = MinHeightAfter(pagesEl, layout, options, minHeight)
  /\ last' = [Op("refreshPage") EXCEPT
                !.result = IF HasTarget(pagesEl) THEN "rebuilt" ELSE "returned",
                !.pageTops = layout.pageTops,
                !.contentTops = layout.contentTops,
                !.classes = ClassifyAll(layout.contentTops, layout.pageTops),
                !.previous = minHeight]
  /\ UNCHANGED <<head, revision, phase, options, styleElement, currentWidth, resizeTimeout,
                 timers, content, sinceQualifying, fires, probe>>

\* refreshPage as the created editor runs it
refreshPage(layout) == refreshPageIn(layout, {"created"})

-----------------------------------------------------------------------------
(* The resize observer and its debounce timer (responsive revision) *)

\* the id setTimeout hands out: one no pending timer has
FreshTimerId(pending) ==
  CHOOSE i \in 1..(Cardinality(pending) + 1) :
    /\ \A t \in pending : t.id /= i
    /\ \A j \in 1..(i - 1) : \E t \in pending : t.id = j

\* mutant: >= in place of >
WidthChangedInclusive(newWidth, stored) == Abs(newWidth - stored) >= ResizeThreshold

\* Math.abs(newWidth - extension.storage.currentWidth) > 5
WidthChanged(newWidth, stored) == Abs(newWidth - stored) > ResizeThreshold

\* clearTimeout(storage.resizeTimeout); storage.resizeTimeout = setTimeout(..., 150)
Reschedule(pending, handle) ==
  LET kept == clearTimeout(pending, handle)
      superseded == {t \in pending : t.id = handle}
      burst == IF superseded = {} THEN 1
               ELSE Min(2, 1 + (CHOOSE t \in superseded : TRUE).burst)
  IN  kept \cup {[id |-> FreshTimerId(kept), remaining |-> ResizeDelay, burst |-> burst]}

\* the handle stored by Reschedule
RescheduledHandle(pending, handle) == FreshTimerId(clearTimeout(pending, handle))

resizeCallback(newWidth) ==
  /\ phase = "created"
  /\ revision = "responsive"
  /\ IF WidthChanged(newWidth, currentWidth)
       THEN /\ Cardinality(Reschedule(timers, resizeTimeout)) <= MaxTimers
            /\ currentWidth' = newWidth
            /\ timers' = Reschedule(timers, resizeTimeout)
            /\ resizeTimeout' = RescheduledHandle(timers, resizeTimeout)
            /\ sinceQualifying' = 0
            /\ fires' = 0
            /\ last' = [Op("resize") EXCEPT !.width = newWidth, !.result = "scheduled"]
       ELSE /\ last' = [Op("resize") EXCEPT !.width = newWidth, !.result = "ignored"]
            /\ UNCHANGED <<currentWidth, timers, resizeTimeout, sinceQualifying, fires>>
  /\ UNCHANGED <<head, minHeight, revision, phase, options, styleElement, content, pagesEl, probe>>

\* mutant: the timer callback works on what was captured when it was scheduled
StateWhenFiredCaptured(current, captured) == captured

\* extension.editor.view.state and the shared pageOptions object are read
\* inside the timer callback, when it runs
StateWhenFired(current, captured) == current

\* the timer callback: dispatch(tr.setMeta(resize_meta_key, true)); a timer that
\* is still pending fires whether or not the editor has been destroyed
resizeTimerFires ==
  /\ phase \in {"created", "destroyed"}
  /\ \E t \in timers :
       /\ t.remaining = 0
       /\ timers' = timers \ {t}
       /\ Dispatch(Tr(FALSE, FALSE, TRUE),
                   StateWhenFired(content, observed.blocks),
                   StateWhenFired(options, observed.o),
                   [Op("resizeTimer") EXCEPT !.elapsed = sinceQualifying, !.burst = t.burst],
                   phase)
  /\ fires' = Min(fires + 1, 2)
  /\ UNCHANGED <<head, minHeight, revision, options, styleElement, currentWidth, resizeTimeout, content,
                 sinceQualifying, probe>>

\* time passes, never past the deadline of a pending timer
Tick ==
  /\ phase = "created"
  /\ revision = "responsive"
  /\ timers /= {} \/ sinceQualifying < ElapsedCap
  /\ \A t \in timers : t.remaining > 0
  /\ \E d \in 1..TickStep :
       /\ \A t \in timers : d <= t.remaining
       /\ \/ d = TickStep
          \/ \E t \in timers : d = t.remaining
       /\ timers' = {[t EXCEPT !.remaining = @ - d] : t \in timers}
       /\ sinceQualifying' = Min(sinceQualifying + d, ElapsedCap)
  /\ last' = Op("tick")
  /\ UNCHANGED <<head, minHeight, revision, phase, options, styleElement, currentWidth, resizeTimeout,
                 content, pagesEl, fires, probe>>

-----------------------------------------------------------------------------
(* The engine, driven by the given calls, documents and widths.  The       *)
(* mutation observer is an input here: refreshPage may run at any time, as  *)
(* it does after any attribute change of view.dom (the focus class, for    *)
(* one).  The companions stay as they start.                               *)

Lifecycle(widths, layouts) ==
  \/ onCreate(widths, layouts) /\ UNCHANGED companions
  \/ onDestroy /\ UNCHANGED companions

Commands(calls) ==
  \/ \E m \in calls : updatePageMargins(m) /\ UNCHANGED companions
  \/ refreshPagination /\ UNCHANGED companions

Transactions(documents) ==
  \/ \E blocks \in documents : DocumentChanged(blocks) /\ UNCHANGED companions
  \/ Unrelated /\ UNCHANGED companions

MutationObserver(layouts) ==
  \E layout \in layouts : refreshPage(layout) /\ UNCHANGED companions

ResizeObserver(widths) ==
  \/ \E w \in widths : resizeCallback(w) /\ UNCHANGED companions
  \/ resizeTimerFires /\ UNCHANGED companions
  \/ Tick /\ UNCHANGED companions

\* the whole engine
Next ==
  \/ Lifecycle(Widths, FewLayouts(Len(pagesEl), Len(content)))
  \/ Commands(FewMarginCalls)
  \/ Transactions(Documents)
  \/ MutationObserver(FewLayouts(Len(pagesEl), Len(content)))
  \/ ResizeObserver(Widths)

Spec == Init /\ [][Next]_vars

\* the engine with the resize observer left out (its timer dispatches the
\* transaction refreshPagination dispatches), driven by every kind of call
NextMargins ==
  \/ Lifecycle(FewWidths, FewLayouts(Len(pagesEl), Len(content)))
  \/ Commands(MarginCalls)
  \/ Transactions(FewDocuments)

SpecMargins == Init /\ [][NextMargins]_vars

\* the engine driven by calls that pass the validation of updatePageMargins
NextGeometry ==
  \/ Lifecycle(FewWidths, FewLayouts(Len(pagesEl), Len(content)))
  \/ Commands(GeometryCalls)
  \/ Transactions(FewDocuments)
  \/ MutationObserver(FewLayouts(Len(pagesEl), Len(content)))

SpecGeometry == Init /\ [][NextGeometry]_vars

-----------------------------------------------------------------------------
(* The estimator evaluated directly, on inputs drawn from a grid *)

MaxProbeSteps == 15
MaxProbePrevious == 4
ProbeStep == DefaultPageHeight - DefaultPageHeaderHeight - DefaultPageFooterHeight

ProbeHeights == {(k * ProbeStep) \div 6 : k \in 0..MaxProbeSteps}
                \cup {(k * ProbeStep) \div 6 + 1 : k \in 0..MaxProbeSteps}

ProbePrevious == {0, ExtraPages} \cup {ExtraPages + k : k \in 1..MaxProbePrevious}

\* geometries with pageHeight > pageHeaderHeight + pageFooterHeight
ProbeGeometries ==
  {[addOptions(FixedFooter("")) EXCEPT
      !.pageHeight = h, !.pageGap = g,
      !.pageHeaderHeight = Num(t), !.pageFooterHeight = Num(b)] :
     h \in {DefaultPageHeight, 131}, g \in {0, DefaultPageGap},
     t \in {0, DefaultPageHeaderHeight}, b \in {DefaultPageFooterHeight, 120}}

InitEstimator ==
  /\ InitEngine
  /\ NoCompanions
  /\ revision = "responsive"
  /\ options = addOptions(FixedFooter("Draft"))
  /\ \E h1 \in ProbeHeights, h2 \in ProbeHeights, p \in ProbePrevious, o \in ProbeGeometries :
       /\ h1 <= h2
       /\ probe = [NoProbe EXCEPT !.H1 = h1, !.H2 = h2, !.P = p, !.o = o]

\* run the estimator on both heights of the probe
Evaluate ==
  /\ ~probe.done
  /\ probe' = [probe EXCEPT
                 !.r1 = EstimatePages(probe.H1, probe.P, probe.o).v,
                 !.r2 = EstimatePages(probe.H2, probe.P, probe.o).v,
                 !.done = TRUE]
  /\ UNCHANGED <<head, minHeight, revision, phase, options, styleElement, currentWidth, resizeTimeout,
                 timers, content, pagesEl, sinceQualifying, fires, last>>
  /\ UNCHANGED companions

SpecEstimator == InitEstimator /\ [][Evaluate]_vars

-----------------------------------------------------------------------------
(* The synthesizer evaluated directly: two resyntheses under one geometry, *)
(* each over its own measurement (content height, previous widget)         *)

MaxSynthHeights == 4

SynthHeights == {k * ProbeStep + 71 : k \in 0..(MaxSynthHeights - 1)}

SynthPrevious == {0, ExtraPages + 1}

SynthFooters ==
  {FixedFooter("Draft"), FixedFooter(""),
   ArrayFooter(<<>>), ArrayFooter(<<"A", "B">>), ArrayFooter(<<"A", "", "C">>),
   ArrayFooter(<<"A", "">>), FunctionFooter}

SynthGeometries ==
  {[addOptions(f) EXCEPT !.pageHeaderHeight = Num(t), !.pageMarginLeft = Num(l)] :
     f \in SynthFooters, t \in {DefaultPageHeaderHeight, 20}, l \in {DefaultPageMarginLeft, 20}}

InitSynthesizer ==
  /\ InitEngine
  /\ NoCompanions
  /\ revision = "responsive"
  /\ options = addOptions(FixedFooter("Draft"))
  /\ \E h1 \in SynthHeights, h2 \in SynthHeights, p1 \in SynthPrevious,
        p2 \in SynthPrevious, o \in SynthGeometries :
       probe = [NoProbe EXCEPT !.H1 = h1, !.H2 = h2, !.P = p1, !.P2 = p2, !.o = o]

\* render the widget for both measurements of the probe
Render ==
  /\ ~probe.done
  /\ probe' = [probe EXCEPT
                 !.r1 = EstimatePages(probe.H1, probe.P, probe.o).v,
                 !.r2 = EstimatePages(probe.H2, probe.P2, probe.o).v,
                 !.out1 = createDecoration(<<probe.H1>>, probe.P, probe.o),
                 !.out2 = createDecoration(<<probe.H2>>, probe.P2, probe.o),
                 !.done = TRUE]
  /\ UNCHANGED <<head, minHeight, revision, phase, options, styleElement, currentWidth, resizeTimeout,
                 timers, content, pagesEl, sinceQualifying, fires, last>>
  /\ UNCHANGED companions

SpecSynthesizer == InitSynthesizer /\ [][Render]_vars

-----------------------------------------------------------------------------
(* The boundary index on its own: a created editor whose widget was just   *)
(* rebuilt, and the mutation observer running refreshPage over layouts     *)
(* the browser may report.                                                 *)

\* a widget as long as the one a 45-page document had
LongPrevious == 50

\* documents with the number of breaks the previous widget had.  The last one
\* is what is left after most of a long document is deleted in one edit: the
\* estimator subtracts the spacing of the 45 breaks it no longer needs.
BoundaryDocuments ==
  {[blocks |-> <<851>>, previous |-> ExtraPages],
   [blocks |-> <<851>>, previous |-> ExtraPages + 1],
   [blocks |-> <<400, 851>>, previous |-> ExtraPages],
   [blocks |-> <<760, 760, 760, 760, 760>>, previous |-> LongPrevious]}

\* measured offsets: all breaks visible, breaks hidden behind a last-page
\* mark (offset 0), and a first page at offset 0
BoundaryLayouts ==
  {Layout(p, c) :
     p \in {NaturalTops(ExtraPages), NaturalTops(ExtraPages + 1),
            <<0, 900, 1800, 0, 0>>, <<900, 1800, 0, 0, 0>>, <<900, 1800, 2700, 0, 0, 0>>},
     c \in {<<100>>, <<950>>, <<1850>>, <<100, 950>>, <<950, 1850>>,
            <<100, 950, 1850, 2750, 3650>>}}

InitBoundary ==
  /\ revision \in Revisions
  /\ phase = "created"
  /\ options = addOptions(FixedFooter("Draft"))
  /\ styleElement = [present |-> TRUE, attached |-> TRUE,
                     textContent |-> IF revision = "responsive" THEN ResponsiveStyle(options)
                                     ELSE BaseCreateStyle(options)]
  /\ currentWidth = IF revision = "responsive" THEN 1000 ELSE 0
  /\ resizeTimeout = 0
  /\ timers = {}
  /\ \E d \in BoundaryDocuments :
       /\ content = d.blocks
       /\ pagesEl = createDecoration(d.blocks, d.previous, options)
  /\ sinceQualifying = ElapsedCap
  /\ fires = 0
  /\ minHeight = Num(MinHeightOf(0, options))
  /\ head = 1
  /\ NoCompanions
  /\ last = [Op("docChanged") EXCEPT !.tr = Tr(TRUE, FALSE, FALSE), !.rebuilt = TRUE]
  /\ probe = NoProbe

NextBoundary == MutationObserver(BoundaryLayouts \cup Layouts(Len(pagesEl), Len(content)))

SpecBoundary == InitBoundary /\ [][NextBoundary]_vars

-----------------------------------------------------------------------------
(* Vocabulary of the claims *)

-----------------------------------------------------------------------------
(* FootnotePlus: the companion plugin.  A footnote node of the document    *)
(* carries an id and a text; `page` is the page its reference is laid out  *)
(* on, a measurement of the layout.  The plugin renders into the footers   *)
(* of the pagination widget.                                               *)

FootnoteNode(id, text, page) == [id |-> id, text |-> text, page |-> page]

\* if (id && text) footnotes[id] = { text, pos }: the node enters the record
ValidFootnote(d, k) == d[k].id /= "" /\ d[k].text /= ""

\* a later valid node of the same id overwrites the entry
KeptFootnote(d, k) ==
  /\ ValidFootnote(d, k)
  /\ \A j \in (k + 1)..Len(d) : ~(ValidFootnote(d, j) /\ d[j].id = d[k].id)

\* the plugin state's apply: the footnotes of tr.doc; taken in document
\* order they are sorted by pos, as sortedFootnotes is
CollectFootnotes(d) ==
  LET ks == SelectSeq([k \in 1..Len(d) |-> k], LAMBDA k : KeptFootnote(d, k))
  IN  [n \in DOMAIN ks |-> [id |-> d[ks[n]].id, text |-> d[ks[n]].text, pos |-> ks[n]]]

\* mutant: the items are numbered from zero
FootnoteItemsZeroBased(fs) ==
  [n \in DOMAIN fs |-> [id |-> fs[n].id, index |-> n - 1, text |-> fs[n].text]]

\* the ".footnote-item" elements appended to one container
FootnoteItems(fs) ==
  [n \in DOMAIN fs |-> [id |-> fs[n].id, index |-> n, text |-> fs[n].text]]

\* the number no reference shows before an update has numbered it
Unnumbered(d) == [k \in DOMAIN d |-> 0]

\* footnoteRefs.forEach: ref.textContent = `[${footnoteIndices[id]}]` for a
\* reference whose data-id has an index, the others keep what they show
ReferenceNumbers(d, fs, shown) ==
  [k \in DOMAIN d |->
     IF \E n \in DOMAIN fs : fs[n].id = d[k].id
       THEN CHOOSE n \in DOMAIN fs : fs[n].id = d[k].id
       ELSE shown[k]]

\* the references after one run of updateFootnotes: it returns before
\* numbering them when the document holds no reference
NumberedBy(fp, destroyed) ==
  IF destroyed \/ Len(fp.doc) = 0 THEN fp.shown
  ELSE ReferenceNumbers(fp.doc, fp.footnotes, fp.shown)

\* updateFootnotes returns early without a reference or without a footer
FootnotesReturnEarly(w, fp) == Len(fp.doc) = 0 \/ w = <<>>

\* mutant: the container is not cleared before the items are appended
RenderFooterAppending(container, fs) ==
  [present |-> TRUE, items |-> container.items \o FootnoteItems(fs)]

\* one footer of footers.forEach: the ".footnote-container" found in the footer
\* or the one created and appended, container.innerHTML = "", then one
\* appendChild per sorted footnote
RenderFooter(container, fs) ==
  LET found   == IF container.present THEN container
                 ELSE [present |-> TRUE, items |-> <<>>]
      cleared == [found EXCEPT !.items = <<>>]
  IN  [cleared EXCEPT !.items = @ \o FootnoteItems(fs)]

\* mutant: only the first footer receives the list
updateFootnotesFirstFooter(w, fp) ==
  IF FootnotesReturnEarly(w, fp) THEN w
  ELSE [i \in DOMAIN w |->
          IF i = 1
            THEN [w[i] EXCEPT !.footnoteContainer = RenderFooter(@, fp.footnotes)]
            ELSE w[i]]

\* footers.forEach: every footer gets a container holding every footnote
updateFootnotes(w, fp) ==
  IF FootnotesReturnEarly(w, fp) THEN w
  ELSE [i \in DOMAIN w |->
          [w[i] EXCEPT !.footnoteContainer = RenderFooter(@, fp.footnotes)]]

\* the plugin's own MutationObserver (childList, subtree, characterData) sees
\* the containers updateFootnotes appends and the items it replaces
FootnotesMutated(w, fp) ==
  /\ ~FootnotesReturnEarly(w, fp)
  /\ \/ fp.footnotes /= <<>>
     \/ \E i \in DOMAIN w : ~w[i].footnoteContainer.present
     \/ \E i \in DOMAIN w : w[i].footnoteContainer.items /= <<>>

\* if (window.footnoteUpdateTimer) clearTimeout(window.footnoteUpdateTimer): the
\* handle is a property of the window, so the timer cleared is the one set
\* last, by whichever editor of the document
SharedTimerCleared(other, cleared) ==
  IF cleared THEN [other EXCEPT !.updateTimer = FALSE] ELSE other

\* the plugin's part of a dispatched transaction: apply collects the
\* footnotes of the new document, view.update() and the redrawn widget
\* (re)start window.footnoteUpdateTimer
FootnotesApplied(d) ==
  /\ footnotePlugin' =
       IF last'.tr.dispatched /\ footnotePlugin.installed
         THEN [footnotePlugin EXCEPT !.doc = d, !.footnotes = CollectFootnotes(d),
                                     !.shown = IF d = footnotePlugin.doc THEN @
                                               ELSE Unnumbered(d),
                                     !.updateTimer = TRUE]
         ELSE footnotePlugin
  /\ peer' = SharedTimerCleared(peer, last'.tr.dispatched /\ footnotePlugin.installed)

\* one run of updateFootnotes over the live DOM
RunUpdateFootnotes(source) ==
  /\ pagesEl' = IF phase = "destroyed" THEN pagesEl ELSE updateFootnotes(pagesEl, footnotePlugin)
  /\ last' = [Op("updateFootnotes") EXCEPT
                !.result = IF phase = "destroyed" \/ FootnotesReturnEarly(pagesEl, footnotePlugin)
                             THEN "returned" ELSE source,
                !.previous = IF pagesEl = <<>> THEN Undefined
                             ELSE Num(Len(pagesEl[1].footnoteContainer.items))]
  /\ UNCHANGED <<head, minHeight, revision, phase, options, styleElement, currentWidth,
                 resizeTimeout, timers, content, sinceQualifying, fires, probe>>
  /\ UNCHANGED <<mutationList, observed>>

Rearmed == footnotePlugin.installed /\ phase /= "destroyed" /\ FootnotesMutated(pagesEl, footnotePlugin)

\* setTimeout(() => updateFootnotes(), 1000): never cleared, not even by destroy
initialTimerFires ==
  /\ footnotePlugin.initialTimer
  /\ RunUpdateFootnotes("initial")
  /\ footnotePlugin' = [footnotePlugin EXCEPT !.initialTimer = FALSE,
                                              !.shown = NumberedBy(footnotePlugin, phase = "destroyed"),
                                              !.updateTimer = @ \/ Rearmed]
  /\ peer' = SharedTimerCleared(peer, Rearmed)

\* window.footnoteUpdateTimer: the debounced update
updateTimerFires ==
  /\ footnotePlugin.updateTimer
  /\ RunUpdateFootnotes("debounced")
  /\ footnotePlugin' = [footnotePlugin EXCEPT
                          !.shown = NumberedBy(footnotePlugin, phase = "destroyed"),
                          !.updateTimer = Rearmed]
  /\ peer' = SharedTimerCleared(peer, Rearmed)

\* setInterval(() => updateFootnotes(), 3000)
intervalFires ==
  /\ footnotePlugin.interval
  /\ RunUpdateFootnotes("interval")
  /\ footnotePlugin' = [footnotePlugin EXCEPT
                          !.shown = NumberedBy(footnotePlugin, phase = "destroyed"),
                          !.updateTimer = @ \/ Rearmed]
  /\ peer' = SharedTimerCleared(peer, Rearmed)

\* the plugin view's destroy(): observer disconnected, interval and debounce cleared
FootnotesDestroyed ==
  /\ footnotePlugin' = [footnotePlugin EXCEPT !.installed = FALSE, !.updateTimer = FALSE,
                                              !.interval = FALSE]
  /\ peer' = SharedTimerCleared(peer, footnotePlugin.installed)

\* the footnote nodes of the documents the editor is driven with
FootnoteDocuments ==
  {<<>>,
   <<FootnoteNode("f1", "Alpha", 0)>>,
   <<FootnoteNode("f1", "Alpha", 0), FootnoteNode("f2", "Beta", 1)>>,
   <<FootnoteNode("f1", "Alpha", 0), FootnoteNode("f1", "Gamma", 1)>>,
   <<FootnoteNode("f1", "", 0), FootnoteNode("", "Beta", 1)>>}

\* an editor constructed with both extensions: the plugin view exists, its
\* initial timeout and its interval are running, its state is init()'s
InitFootnotes ==
  /\ InitEngine
  /\ options = addOptions(FixedFooter("Draft"))
  /\ mutationList = <<>>
  /\ observed = NoSnapshot
  /\ peer = NoPeer
  /\ \E d \in FootnoteDocuments :
       footnotePlugin = [NoFootnotes EXCEPT !.installed = TRUE, !.doc = d,
                                            !.shown = Unnumbered(d),
                                            !.initialTimer = TRUE, !.interval = TRUE]
  /\ probe = NoProbe

NextFootnotes ==
  \/ \E layout \in FewLayouts(Len(pagesEl), Len(content)) :
       /\ onCreate(FewWidths, {layout})
       /\ FootnotesApplied(footnotePlugin.doc)
       /\ UNCHANGED <<mutationList, observed>>
  \/ onDestroy /\ FootnotesDestroyed /\ UNCHANGED <<mutationList, observed>>
  \/ \E m \in FewMarginCalls :
       /\ updatePageMargins(m)
       /\ FootnotesApplied(footnotePlugin.doc)
       /\ UNCHANGED <<mutationList, observed>>
  \/ refreshPagination /\ FootnotesApplied(footnotePlugin.doc)
                       /\ UNCHANGED <<mutationList, observed>>
  \/ \E blocks \in FewDocuments, d \in FootnoteDocuments :
       /\ DocumentChanged(blocks)
       /\ FootnotesApplied(d)
       /\ UNCHANGED <<mutationList, observed>>
  \/ Unrelated /\ FootnotesApplied(footnotePlugin.doc) /\ UNCHANGED <<mutationList, observed>>
  \/ \E layout \in FewLayouts(Len(pagesEl), Len(content)) :
       refreshPage(layout) /\ UNCHANGED companions
  \/ initialTimerFires
  \/ updateTimerFires
  \/ intervalFires

\* the interval and the initial timeout fire; the debounced timer is
\* restarted by every view update, so nothing is assumed about it
SpecFootnotes ==
  /\ InitFootnotes
  /\ [][NextFootnotes]_vars
  /\ WF_vars(intervalFires)
  /\ WF_vars(initialTimerFires)

-----------------------------------------------------------------------------
(* Repeated resynthesis over a document and a geometry that do not change: *)
(* each one reads the number of breaks the one before it rendered.         *)

MaxResyntheses == 4
MaxStartPages == 4

\* sampled heights around the multiples of the content band
ConvergenceHeights ==
  {0, 400, ProbeStep, ProbeStep + 1, 851, ProbeStep + 72, ProbeStep + 73,
   2 * ProbeStep, 2 * ProbeStep + 73, 2 * ProbeStep + 144, 2 * ProbeStep + 145}

\* a created editor whose widget has n + 5 breaks for any n up to MaxStartPages
InitConvergence ==
  /\ revision \in Revisions
  /\ phase = "created"
  /\ options = addOptions(FixedFooter("Draft"))
  /\ styleElement = [present |-> TRUE, attached |-> TRUE,
                     textContent |-> IF revision = "responsive" THEN ResponsiveStyle(options)
                                     ELSE BaseCreateStyle(options)]
  /\ currentWidth = IF revision = "responsive" THEN 1000 ELSE 0
  /\ resizeTimeout = 0
  /\ timers = {}
  /\ \E h \in ConvergenceHeights : content = <<h>>
  /\ \E n \in 0..MaxStartPages : pagesEl = Synthesize(n, options)
  /\ sinceQualifying = ElapsedCap
  /\ fires = 0
  /\ minHeight = Num(MinHeightOf(0, options))
  /\ head = 1
  /\ NoCompanions
  /\ last = Op("init")
  /\ probe = NoProbe

\* one more resynthesis: a transaction carrying the pagination tag is applied
Resynthesize ==
  /\ Len(probe.counts) < MaxResyntheses
  /\ Dispatch(Tr(FALSE, TRUE, FALSE), content, options, Op("resynthesis"), phase)
  /\ probe' = [probe EXCEPT !.counts = Append(@, Len(pagesEl') - ExtraPages)]
  /\ UNCHANGED <<head, minHeight, revision, options, styleElement, currentWidth, resizeTimeout,
                 timers, content, sinceQualifying, fires>>
  /\ UNCHANGED companions

SpecConvergence == InitConvergence /\ [][Resynthesize]_vars

-----------------------------------------------------------------------------
(* The mutation observer in detail.  The browser queues a record for every *)
(* observed DOM change and hands the queue to the callback once the handler *)
(* that made the changes has returned; the callback reads only the first    *)
(* record's target.  mutationList keeps that first target.                  *)

\* everything the pagination engine itself owns
engine == <<revision, phase, options, styleElement, currentWidth, resizeTimeout,
            timers, content, pagesEl, sinceQualifying, fires, minHeight, head,
            last, probe>>

\* a change of a node's attributes or of its children, on the editor's root
\* ("view.dom") or on a node below it ("descendant")
Record(type, target) == [type |-> type, target |-> target]

\* observer.observe(targetNode, { attributes: true }) in the base revision,
\* { attributes: true, childList: true, subtree: true } in the responsive one
Observes(rev, r) ==
  IF rev = "base" THEN r.type = "attributes" /\ r.target = "view.dom"
  ELSE r.type \in {"attributes", "childList"}

\* the queue after the records have been offered to the observer, in order
Queued(rev, q, records) ==
  LET seen == SelectSeq(records, LAMBDA r : Observes(rev, r))
  IN  IF q /= <<>> THEN q
      ELSE IF seen /= <<>> THEN <<seen[1].target>>
      ELSE <<>>

\* mutant: every write of the minimum height queues a record, changed or not
RefreshRecordsAlways(w, before, after) ==
  (IF HasTarget(w) THEN <<Record("attributes", "view.dom")>> ELSE <<>>)
  \o (IF HasTarget(w) THEN <<Record("attributes", "descendant")>> ELSE <<>>)

\* refreshPage writes view.dom.style.minHeight first, then the last-page class
\* and the breakers' styles inside the widget
RefreshRecords(w, before, after) ==
  (IF HasTarget(w) /\ after /= before THEN <<Record("attributes", "view.dom")>> ELSE <<>>)
  \o (IF HasTarget(w) THEN <<Record("attributes", "descendant")>> ELSE <<>>)

\* the view redraws the widget, a child of view.dom, whenever apply returned a
\* new decoration set; when the edit changed nodes inside the content, those
\* changes are made first
DispatchRecords(rebuilt, inner) ==
  (IF inner THEN <<Record("childList", "descendant")>> ELSE <<>>)
  \o (IF rebuilt THEN <<Record("childList", "view.dom")>> ELSE <<>>)

\* the observer is registered in onCreate; onDestroy does not disconnect it
Observing == {"created", "destroyed"}

\* the handler's DOM changes reach the observer
Observe(records) ==
  /\ mutationList' = IF phase' = "constructed" THEN mutationList
                      ELSE Queued(revision, mutationList, records)
  /\ UNCHANGED <<footnotePlugin, observed, peer>>

\* the view draws the decorations of the current plugin state:
\* props.decorations(state) { return this.getState(state) }
drawDecorations ==
  /\ Alive
  /\ ~HasTarget(pagesEl)
  /\ pagesEl' = createDecoration(content, 0, options)
  /\ last' = Op("draw")
  /\ UNCHANGED <<head, minHeight, revision, phase, options, styleElement, currentWidth,
                 resizeTimeout, timers, content, sinceQualifying, fires, probe>>

\* the callback: if (_target.classList.contains("rm-with-pagination")) refreshPage(_target)
mutationCallback ==
  /\ phase \in Observing
  /\ mutationList /= <<>>
  /\ IF Head(mutationList) = "view.dom"
       THEN \E layout \in FewLayouts(Len(pagesEl), Len(content)) :
              /\ refreshPageIn(layout, Observing)
              /\ mutationList' = Queued(revision, <<>>, RefreshRecords(pagesEl, minHeight, minHeight'))
       ELSE /\ mutationList' = <<>>
            /\ UNCHANGED engine
  /\ UNCHANGED <<footnotePlugin, observed, peer>>

InitObserver ==
  /\ revision \in Revisions
  /\ phase = "constructed"
  /\ \E f \in FooterSources : options = addOptions(f)
  /\ styleElement = NoStyleElement
  /\ currentWidth = 0
  /\ resizeTimeout = 0
  /\ timers = {}
  /\ content = <<>>
  /\ pagesEl \in {<<>>, createDecoration(<<>>, 0, options)}
  /\ sinceQualifying = ElapsedCap
  /\ fires = 0
  /\ minHeight = Undefined
  /\ head = 0
  /\ last = Op("init")
  /\ NoCompanions
  /\ probe = NoProbe

\* queued records are delivered before the next event is handled; only
\* editor.destroy() is taken to be called also by the handler that made the
\* previous call, before the records of that call are delivered
Drained == mutationList = <<>>

NextObserver ==
  \/ \E layout \in FewLayouts(Len(pagesEl), Len(content)) :
       /\ Drained
       /\ onCreate(FewWidths, {layout})
       /\ Observe(RefreshRecords(pagesEl, minHeight, minHeight')
                  \o DispatchRecords(last'.rebuilt, FALSE))
  \/ onDestroy /\ UNCHANGED companions
  \/ \E m \in FewMarginCalls :
       Drained /\ updatePageMargins(m) /\ Observe(DispatchRecords(last'.rebuilt, FALSE))
  \/ Drained /\ refreshPagination /\ Observe(DispatchRecords(last'.rebuilt, FALSE))
  \/ \E blocks \in FewDocuments, inner \in BOOLEAN :
       Drained /\ DocumentChanged(blocks) /\ Observe(DispatchRecords(last'.rebuilt, inner))
  \/ Drained /\ Unrelated /\ UNCHANGED companions
  \/ Drained /\ drawDecorations /\ Observe(<<Record("childList", "view.dom")>>)
  \/ mutationCallback

\* the browser delivers queued records
SpecObserver == InitObserver /\ [][NextObserver]_vars /\ WF_vars(mutationCallback)

-----------------------------------------------------------------------------
(* The engine under a geometry whose header and footer leave no room for   *)
(* content: updatePageMargins accepts any non-negative top and bottom      *)

MaxRendered == 16

\* a validated call that makes header plus footer taller than the page
NarrowCalls == {MarginObject(Undefined, Undefined, Undefined, Num(900))}

\* the widget after the step stays within the bound
WithinRendered == Len(pagesEl') <= MaxRendered

NextNarrow ==
  \/ Lifecycle(FewWidths, FewLayouts(Len(pagesEl), Len(content))) /\ WithinRendered
  \/ Commands(FewMarginCalls \cup NarrowCalls) /\ WithinRendered
  \/ Transactions(FewDocuments) /\ WithinRendered
  \/ MutationObserver(FewLayouts(Len(pagesEl), Len(content))) /\ WithinRendered

SpecNarrow == Init /\ [][NextNarrow]_vars

-----------------------------------------------------------------------------
(* The debounced resize next to commands and edits.  observed keeps the     *)
(* geometry and the content as they were when the pending timer was         *)
(* scheduled, for comparison with what the timer callback works on.         *)

\* an accepted width change: what the editor looked like at that moment
Snapshot ==
  /\ observed' = IF last'.result = "scheduled"
                   THEN [taken |-> TRUE, o |-> options, blocks |-> content]
                   ELSE observed
  /\ UNCHANGED <<mutationList, footnotePlugin, peer>>

NextResize ==
  \/ Lifecycle(FewWidths, FewLayouts(Len(pagesEl), Len(content)))
  \/ Commands(FewMarginCalls)
  \/ Transactions(FewDocuments)
  \/ \E w \in Widths : resizeCallback(w) /\ Snapshot
  \/ resizeTimerFires /\ UNCHANGED companions
  \/ Tick /\ UNCHANGED companions

SpecResize == Init /\ [][NextResize]_vars

-----------------------------------------------------------------------------
(* Two editors in one document.  The editor followed so far is the second  *)
(* in document order; of the other one, which also runs both extensions    *)
(* and whose document has no footnote, only what this editor's code can    *)
(* reach is kept: the number of breaks of its widget and its pending       *)
(* debounced footnote update.                                              *)

\* children.length of the other editor's widget
PeerRendered == {ExtraPages, ExtraPages + 1, ExtraPages + 2}

\* this editor's documents: without a footnote and with two
PeerFootnoteDocuments ==
  {<<>>, <<FootnoteNode("f1", "Alpha", 0), FootnoteNode("f2", "Beta", 1)>>}

\* a resynthesis in the other editor changes the number of breaks it renders
peerResynthesizes ==
  /\ peer.present
  /\ \E n \in PeerRendered \ {peer.rendered} : peer' = [peer EXCEPT !.rendered = n]
  /\ last' = Op("peer")
  /\ UNCHANGED <<head, minHeight, revision, phase, options, styleElement, currentWidth,
                 resizeTimeout, timers, content, pagesEl, sinceQualifying, fires, probe>>
  /\ UNCHANGED <<mutationList, footnotePlugin, observed>>

\* the other editor's plugin view is updated: it clears window.footnoteUpdateTimer,
\* whoever set it, and sets its own timeout
peerViewUpdate ==
  /\ peer.present
  /\ peer' = [peer EXCEPT !.updateTimer = TRUE]
  /\ footnotePlugin' = [footnotePlugin EXCEPT !.updateTimer = FALSE]
  /\ last' = Op("peer")
  /\ UNCHANGED <<head, minHeight, revision, phase, options, styleElement, currentWidth,
                 resizeTimeout, timers, content, pagesEl, sinceQualifying, fires, probe>>
  /\ UNCHANGED <<mutationList, observed>>

\* the other editor's updateFootnotes, from its debounced timeout or from its
\* interval: it queries the whole document, so with a reference anywhere it
\* empties and refills every footer, this editor's included, from its own
\* (empty) footnote record; this editor's observer sees that and re-arms
peerUpdateRuns ==
  /\ peer.present
  /\ \E debounced \in BOOLEAN :
       /\ debounced => peer.updateTimer
       /\ pagesEl' = updateFootnotes(pagesEl, [footnotePlugin EXCEPT !.footnotes = <<>>])
       /\ LET seen == footnotePlugin.installed /\ phase /= "destroyed" /\ pagesEl' /= pagesEl
          IN  /\ footnotePlugin' = [footnotePlugin EXCEPT !.updateTimer = @ \/ seen]
              /\ peer' = [peer EXCEPT !.updateTimer = IF debounced \/ seen THEN FALSE ELSE @]
  /\ last' = Op("peer")
  /\ UNCHANGED <<head, minHeight, revision, phase, options, styleElement, currentWidth,
                 resizeTimeout, timers, content, sinceQualifying, fires, probe>>
  /\ UNCHANGED <<mutationList, observed>>

InitTwoEditors ==
  /\ InitEngine
  /\ options = addOptions(FixedFooter("Draft"))
  /\ mutationList = <<>>
  /\ observed = NoSnapshot
  /\ peer = [present |-> TRUE, rendered |-> ExtraPages, updateTimer |-> FALSE]
  /\ \E d \in PeerFootnoteDocuments :
       footnotePlugin = [NoFootnotes EXCEPT !.installed = TRUE, !.doc = d,
                                            !.shown = Unnumbered(d),
                                            !.initialTimer = TRUE, !.interval = TRUE]
  /\ probe = NoProbe

NextTwoEditors ==
  \/ \E layout \in FewLayouts(Len(pagesEl), Len(content)) :
       /\ onCreate(FewWidths, {layout})
       /\ FootnotesApplied(footnotePlugin.doc)
       /\ UNCHANGED <<mutationList, observed>>
  \/ onDestroy /\ FootnotesDestroyed /\ UNCHANGED <<mutationList, observed>>
  \/ refreshPagination /\ FootnotesApplied(footnotePlugin.doc)
                       /\ UNCHANGED <<mutationList, observed>>
  \/ \E blocks \in FewDocuments, d \in PeerFootnoteDocuments :
       /\ DocumentChanged(blocks)
       /\ FootnotesApplied(d)
       /\ UNCHANGED <<mutationList, observed>>
  \/ initialTimerFires
  \/ updateTimerFires
  \/ intervalFires
  \/ peerResynthesizes
  \/ peerViewUpdate
  \/ peerUpdateRuns

SpecTwoEditors == InitTwoEditors /\ [][NextTwoEditors]_vars

\* a value that is a non-negative number
NonNegativeNumber(x) == x.t = "number" /\ x.v >= 0

Provided(m) == {f \in Fields : m[f] /= Undefined}

\* some provided field is not a non-negative number
HasBadField(m) == \E f \in Provided(m) : ~NonNegativeNumber(m[f])

\* an object all of whose provided fields are non-negative numbers
WellFormed(m) == m.kind = "object" /\ ~HasBadField(m)

GeometryOf(o) == <<o.pageMarginLeft, o.pageMarginRight, o.pageHeaderHeight, o.pageFooterHeight>>

UpdateCalled == last'.op = "updatePageMargins"

\* C1: updatePageMargins called with a provided field that is not a
\* non-negative number returns false, leaves the four geometry fields
\* unchanged, rewrites no style rule and dispatches no transaction, even when
\* other provided fields are valid.
C1_InvalidMarginRejected ==
  [][(UpdateCalled /\ HasBadField(last'.arg))
       => /\ last'.result = "false"
          /\ GeometryOf(options') = GeometryOf(options)
          /\ styleElement' = styleElement
          /\ ~last'.tr.dispatched]_vars

\* C2: updatePageMargins never throws; for null, undefined or a non-object
\* argument it returns false and changes no state.
C2_NeverThrows ==
  [][UpdateCalled
       => /\ last'.result /= "throw"
          /\ last'.arg.kind /= "object"
               => /\ last'.result = "false"
                  /\ options' = options
                  /\ styleElement' = styleElement
                  /\ pagesEl' = pagesEl
                  /\ ~last'.tr.dispatched]_vars

AllHeaderBands(w, h) == \A i \in DOMAIN w : w[i].headerHeight = h

\* C3: a successful updatePageMargins sets pageHeaderHeight to top,
\* pageFooterHeight to bottom, pageMarginLeft to left and pageMarginRight to
\* right for exactly the fields provided, leaves every other field unchanged,
\* and every header band of the resynthesis it triggers measures the new
\* pageHeaderHeight.
C3_MarginsApplied ==
  [][(UpdateCalled /\ last'.result = "true")
       => LET m == last'.arg
          IN  /\ options'.pageHeaderHeight =
                   IF "top" \in Provided(m) THEN m.top ELSE options.pageHeaderHeight
              /\ options'.pageFooterHeight =
                   IF "bottom" \in Provided(m) THEN m.bottom ELSE options.pageFooterHeight
              /\ options'.pageMarginLeft =
                   IF "left" \in Provided(m) THEN m.left ELSE options.pageMarginLeft
              /\ options'.pageMarginRight =
                   IF "right" \in Provided(m) THEN m.right ELSE options.pageMarginRight
              /\ options'.pageHeight = options.pageHeight
              /\ options'.pageGap = options.pageGap
              /\ options'.pageGapBorderSize = options.pageGapBorderSize
              /\ options'.footerText = options.footerText
              /\ last'.rebuilt
              /\ AllHeaderBands(pagesEl', options'.pageHeaderHeight)]_vars

\* C3 witness: {top: 20} succeeded; the header height is 20, the left margin
\* kept its default and all header bands measure 20.
C3_Witness ==
  /\ last.op = "updatePageMargins"
  /\ last.result = "true"
  /\ last.arg = MarginObject(Undefined, Undefined, Num(20), Undefined)
  /\ options.pageHeaderHeight = Num(20)
  /\ options.pageMarginLeft = Num(DefaultPageMarginLeft)
  /\ options.pageFooterHeight = Num(DefaultPageFooterHeight)
  /\ Len(pagesEl) >= ExtraPages
  /\ AllHeaderBands(pagesEl, Num(20))

\* C4: every successful updatePageMargins (an object whose provided fields
\* are all non-negative numbers) returns true, leaves the injected style
\* rules written from the updated geometry, and dispatches a transaction
\* carrying the pagination tag whose application resynthesizes the widget
\* from the updated geometry.
C4_SuccessRestylesAndResynthesizes ==
  [][UpdateCalled
       => /\ WellFormed(last'.arg) => last'.result = "true"
          /\ last'.result = "true"
               => /\ styleElement'.present
                       => /\ styleElement'.textContent.headerHeight = options'.pageHeaderHeight
                          /\ styleElement'.textContent.footerHeight = options'.pageFooterHeight
                          /\ styleElement'.textContent.paddingRight = options'.pageMarginRight
                          /\ styleElement'.textContent.textLeft = options'.pageMarginLeft
                          /\ styleElement'.textContent.tableMaxHeight = ContentBand(options')
                  /\ last'.tr.dispatched /\ last'.tr.pagination
                  /\ last'.rebuilt
                  /\ Len(pagesEl') =
                       EstimatePages(TotalHeight(content), Len(pagesEl), options').v + ExtraPages
                  /\ \A i \in DOMAIN pagesEl' :
                       /\ pagesEl'[i].headerHeight = options'.pageHeaderHeight
                       /\ pagesEl'[i].footerHeight = options'.pageFooterHeight
                       /\ pagesEl'[i].marginLeft = options'.pageMarginLeft
                       /\ pagesEl'[i].marginRight = options'.pageMarginRight]_vars

\* C4 witness: after onCreate a call changed the footer height and the left
\* margin; the style rules and the footer bands carry the new values.
C4_Witness ==
  /\ last.op = "updatePageMargins"
  /\ last.result = "true"
  /\ phase = "created"
  /\ styleElement.present
  /\ last.arg = MarginObject(Num(20), Undefined, Undefined, Num(30))
  /\ styleElement.textContent.footerHeight = Num(30)
  /\ styleElement.textContent.textLeft = Num(20)
  /\ last.tr.pagination
  /\ \A i \in DOMAIN pagesEl : pagesEl[i].footerHeight = Num(30)

RefreshCalled == last'.op = "refreshPagination"

\* C5: refreshPagination can be called in every state of a live editor; each
\* call returns true and dispatches a tagged transaction whose application
\* rebuilds the widget from the live measurement, whether or not the
\* document, the width or the geometry changed.
C5_RefreshAlwaysResynthesizes ==
  /\ []((Alive /\ revision = "responsive") => ENABLED refreshPagination)
  /\ [][RefreshCalled
          => /\ last'.result = "true"
             /\ last'.tr.dispatched /\ last'.tr.resize
             /\ last'.rebuilt
             /\ UNCHANGED <<options, content, currentWidth>>
             /\ Len(pagesEl') =
                  EstimatePages(TotalHeight(content), Len(pagesEl), options).v + ExtraPages
             /\ \A i \in DOMAIN pagesEl' :
                  pagesEl'[i] = createPageBreak(i = 1, i - 1, options)]_vars

\* C5 witness: a refreshPagination over a non-empty document returned true,
\* dispatched the tagged transaction and rebuilt the widget from the live
\* measurement.
C5_Witness ==
  /\ last.op = "refreshPagination"
  /\ last.result = "true"
  /\ last.rebuilt
  /\ last.tr.resize
  /\ content /= <<>>
  /\ Len(pagesEl) = EstimatePages(TotalHeight(content), Len(pagesEl), options).v + ExtraPages

FooterTexts(w) == [i \in DOMAIN w |-> w[i].footerText]

\* C6: a refreshPagination that directly follows a refreshPagination leaves
\* the number of break descriptors and each descriptor's footer text as the
\* first call left them.
C6_RefreshIdempotent ==
  [][(last.op = "refreshPagination" /\ RefreshCalled)
       => /\ Len(pagesEl') = Len(pagesEl)
          /\ FooterTexts(pagesEl') = FooterTexts(pagesEl)]_vars

\* what the claim calls a trigger of resynthesis
Triggers(tr) == tr.docChanged \/ tr.pagination \/ tr.resize

C8_ResizeDebounced ==
  /\ Cardinality(timers) <= 1
  /\ \A t \in timers : t.id = resizeTimeout /\ t.remaining = ResizeDelay - sinceQualifying
  /\ fires <= 1
  /\ last.op = "resizeTimer" => last.elapsed = ResizeDelay /\ last.tr.resize
  /\ (phase = "created" /\ resizeTimeout /= 0 /\ sinceQualifying > ResizeDelay) => fires = 1

\* C8 witness: a timer that superseded an earlier pending one has fired, 150
\* after the last qualifying notification, and nothing else is pending.
C8_Witness ==
  /\ last.op = "resizeTimer"
  /\ last.burst = 2
  /\ last.elapsed = ResizeDelay
  /\ fires = 1
  /\ timers = {}

ResizeNotified == last'.op = "resize"

\* C9: a resize notification whose width differs from the stored width by at
\* most 5 schedules nothing and leaves the stored width and the pending
\* timer unchanged; one that differs by more than 5 stores the new width and
\* schedules a resynthesis 150 time-units later.  The stored width is the
\* last accepted one, so drift is measured from it.
C9_ResizeThreshold ==
  [][ResizeNotified
       => IF Abs(last'.width - currentWidth) <= ResizeThreshold
            THEN /\ UNCHANGED <<currentWidth, timers, resizeTimeout, pagesEl>>
                 /\ last'.result = "ignored"
            ELSE /\ currentWidth' = last'.width
                 /\ \E t \in timers' : t.id = resizeTimeout' /\ t.remaining = ResizeDelay
                 /\ last'.result = "scheduled"]_vars

\* C9 witness: a notification within 5 of the stored width was ignored while
\* the width it reported differs from the stored one.
C9_Witness ==
  /\ last.op = "resize"
  /\ last.result = "ignored"
  /\ last.width /= currentWidth
  /\ Abs(last.width - currentWidth) = ResizeThreshold

\* C10: for a valid geometry and a fixed previously rendered page count the
\* estimated page count is non-decreasing in the sampled content height.
C10_EstimateMonotone ==
  (probe.done /\ probe.H1 <= probe.H2) => probe.r1 <= probe.r2

\* C10 witness: two heights with a previous widget of more than 5 breaks,
\* the larger height giving strictly more pages.
C10_Witness ==
  /\ probe.done
  /\ probe.H1 < probe.H2
  /\ probe.P > ExtraPages
  /\ 0 < probe.r1
  /\ probe.r1 < probe.r2

PageIndices(w) == [i \in DOMAIN w |-> w[i].pageIndex]

EntryAt(a, i) == IF i + 1 \in DOMAIN a THEN a[i + 1] ELSE ""

LastEntry(a) == IF a = <<>> THEN "" ELSE a[Len(a)]

\* C12: with a sequence as footer-text source the descriptor at pageIndex i
\* carries the entry at i, or the last entry when index i is absent or its
\* entry is the empty string; an empty sequence gives "" on every page.
C12_SequenceFooter ==
  (probe.done /\ probe.o.footerText.kind = "array")
    => LET a == probe.o.footerText.a
       IN  \A k \in DOMAIN probe.out1 :
             LET i == probe.out1[k].pageIndex
             IN  probe.out1[k].footerText =
                   IF EntryAt(a, i) /= "" THEN EntryAt(a, i) ELSE LastEntry(a)

\* C12 witness: ["A","B"] resolved to "A" at pageIndex 0 and to "B" at
\* pageIndex 5.
C12_Witness ==
  /\ probe.done
  /\ probe.o.footerText = ArrayFooter(<<"A", "B">>)
  /\ Len(probe.out1) >= 6
  /\ probe.out1[1].footerText = "A"
  /\ probe.out1[6].pageIndex = 5
  /\ probe.out1[6].footerText = "B"

\* C13: with a fixed string as footer-text source every descriptor of every
\* resynthesis carries exactly that string, whatever the page index and the
\* page count.
C13_FixedFooter ==
  (probe.done /\ probe.o.footerText.kind = "string")
    => /\ \A k \in DOMAIN probe.out1 : probe.out1[k].footerText = probe.o.footerText.s
       /\ \A k \in DOMAIN probe.out2 : probe.out2[k].footerText = probe.o.footerText.s

\* C13 witness: two resyntheses of different page counts, all descriptors
\* carrying "Draft".
C13_Witness ==
  /\ probe.done
  /\ probe.o.footerText = FixedFooter("Draft")
  /\ Len(probe.out1) < Len(probe.out2)
  /\ \A k \in DOMAIN probe.out2 : probe.out2[k].footerText = "Draft"

\* C14: with a function f as footer-text source the descriptor at 0-based
\* pageIndex i carries f(i + 1); i => "Page " + i gives "Page 3" at
\* pageIndex 2.
C14_FunctionFooter ==
  (probe.done /\ probe.o.footerText.kind = "function")
    => /\ \A k \in DOMAIN probe.out1 :
            probe.out1[k].footerText = FooterFunction(probe.out1[k].pageIndex + 1)
       /\ probe.out1[3].pageIndex = 2
       /\ probe.out1[3].footerText = "Page 3"

\* C14 witness: a widget rendered from the function source whose first
\* descriptor reads "Page 1" and whose sixth reads "Page 6".
C14_Witness ==
  /\ probe.done
  /\ probe.o.footerText = FunctionFooter
  /\ Len(probe.out1) >= 6
  /\ probe.out1[1].footerText = "Page 1"
  /\ probe.out1[6].footerText = "Page 6"

\* the boundary index has just been rebuilt
Rebuilt == last.op = "refreshPage"

\* the non-zero rendered page-top offsets
NonZeroOffsets(rawTops) == SelectSeq(rawTops, LAMBDA t : t /= 0)

\* t lies in bucket i (0-based) of the offsets B followed by the sentinel
InBucket(t, B, i) ==
  /\ i + 1 \in DOMAIN B
  /\ B[i + 1] <= t
  /\ (i + 2 \in DOMAIN B) => t < B[i + 2]

\* C15: with B the non-zero rendered page-top offsets followed by the
\* unbounded sentinel, a content element whose top offset t satisfies
\* B[i] <= t < B[i+1] is classified into page i + 1 and an element above
\* B[0] into no page; rendered offsets 0, 900, 1800 give B = [900, 1800,
\* infinity], where an element at 1850 is classified into page index 2.
C15_BoundaryClassification ==
  Rebuilt
    => LET B == NonZeroOffsets(last.pageTops)
       IN  \A k \in DOMAIN last.contentTops :
             LET t == last.contentTops[k]
             IN  /\ \A i \in 0..(Len(B) - 1) : InBucket(t, B, i) => last.classes[k] = i + 1
                 /\ (\A i \in 0..(Len(B) - 1) : ~InBucket(t, B, i)) => last.classes[k] = 0
                 /\ (B = <<900, 1800>> /\ t = 1850) => last.classes[k] = 2

\* C15 witness: the rendered offsets are 0, 900, 1800, the breaks behind them
\* are hidden, and the element at 1850 went to page index 2.
C15_Witness ==
  /\ Rebuilt
  /\ last.pageTops = <<0, 900, 1800, 0, 0>>
  /\ last.contentTops = <<1850>>
  /\ last.classes = <<2>>

\* the rendered offsets as the index sees them when no offset is left
\* out: everything up to the last visible break
RenderedOffsets(rawTops) ==
  LET shown == {i \in DOMAIN rawTops : rawTops[i] /= 0}
  IN  IF shown = {} THEN <<>>
      ELSE SubSeq(rawTops, 1, CHOOSE i \in shown : \A j \in shown : j <= i)

\* C15 as stated: B is the sequence of rendered page-top offsets followed by
\* the sentinel, so that offsets [0, 900, 1800, infinity] put an element at
\* 1850 into page index 3.
C15_AsStated ==
  Rebuilt
    => LET B == RenderedOffsets(last.pageTops)
       IN  \A k \in DOMAIN last.contentTops :
             \A i \in 0..(Len(B) - 1) :
               InBucket(last.contentTops[k], B, i) => last.classes[k] = i + 1

\* the highest populated page bucket, 0 when none is populated
HighestBucket(classes) ==
  LET populated == {classes[k] : k \in DOMAIN classes} \ {0}
  IN  IF populated = {} THEN 0 ELSE CHOOSE m \in populated : \A q \in populated : q <= m

\* C16: after every boundary-index rebuild on a rendered widget the break at
\* index m + 1 (m the highest populated bucket, 0 when none) exists and
\* carries the last-page mark.
C16_TerminalMark ==
  Rebuilt
    => LET m == HighestBucket(last.classes)
       IN  /\ m + 2 \in DOMAIN pagesEl
           /\ pagesEl[m + 2].lastPage

\* C17: after a boundary-index rebuild the container's minimum height is
\* (m + 2) * pageHeight + (m + 1) * (pageGap + 2 * pageGapBorderSize), m the
\* highest populated bucket (0 when none): not less than the extent of the
\* pages 0 .. m and at most one page and one gap more.
C17_MinHeight ==
  Rebuilt
    => LET m == HighestBucket(last.classes)
           gap == options.pageGap + 2 * options.pageGapBorderSize
           extent == (m + 1) * options.pageHeight + m * gap
       IN  /\ minHeight = Num((m + 2) * options.pageHeight + (m + 1) * gap)
           /\ minHeight.v >= extent
           /\ minHeight.v - extent <= options.pageHeight + gap

\* C17 witness: content in bucket 2 with the default geometry: four pages
\* and three gaps, 3356.
C17_Witness ==
  /\ Rebuilt
  /\ HighestBucket(last.classes) = 2
  /\ options.pageHeight = 800
  /\ minHeight = Num(3356)

\* C18: in every reachable state pageMarginLeft, pageMarginRight,
\* pageHeaderHeight and pageFooterHeight are non-negative numbers.
C18_GeometryNonNegative ==
  /\ NonNegativeNumber(options.pageMarginLeft)
  /\ NonNegativeNumber(options.pageMarginRight)
  /\ NonNegativeNumber(options.pageHeaderHeight)
  /\ NonNegativeNumber(options.pageFooterHeight)

\* C19: in every reachable state pageHeight exceeds pageHeaderHeight +
\* pageFooterHeight: the content band is a strictly positive number.
C19_ContentBandPositive ==
  /\ ContentBand(options).t = "number"
  /\ ContentBand(options).v > 0

\* the operations other than updatePageMargins
OtherOperations ==
  {"onCreate", "onDestroy", "refreshPagination", "docChanged", "unrelated",
   "refreshPage", "resize", "resizeTimer", "tick"}

\* C20: the geometry changes only in a step of a successful
\* updatePageMargins; refreshPagination, resize notifications and their
\* timer, document changes, unrelated transactions, the resynthesis they
\* trigger and boundary-index rebuilds leave every field of it unchanged.
C20_GeometryFrame ==
  [][/\ options' /= options => (last'.op = "updatePageMargins" /\ last'.result = "true")
     /\ last'.op \in OtherOperations => options' = options]_vars

\* C20 witness: after {top: 20} a refreshPagination resynthesized and a
\* boundary-index rebuild ran, and the header height is still 20.
C20_Witness ==
  /\ last.op = "refreshPage"
  /\ options.pageHeaderHeight = Num(20)
  /\ \A i \in DOMAIN pagesEl : pagesEl[i].headerHeight = Num(20)
  /\ \E i \in DOMAIN pagesEl : pagesEl[i].lastPage
  /\ minHeight /= Undefined

\* C21: from onCreate until onDestroy exactly one style element of the engine
\* is attached to the document, the one kept in storage; updatePageMargins
\* rewrites the content of that element and attaches no other, and onDestroy
\* detaches it.
C21_OneStyleElement ==
  /\ [](phase = "constructed" => head = 0)
  /\ [](phase = "created" => (head = 1 /\ styleElement.present /\ styleElement.attached))
  /\ [][UpdateCalled
          => /\ head' = head
             /\ styleElement'.present = styleElement.present
             /\ styleElement'.attached = styleElement.attached
             /\ (last'.result = "true" /\ styleElement.present)
                  => styleElement'.textContent.headerHeight = options'.pageHeaderHeight]_vars
  /\ [][last'.op = "onDestroy" => (head' = 0 /\ ~styleElement'.attached)]_vars

\* C21 witness: the editor was created, a successful updatePageMargins
\* rewrote the one attached element, and the editor was then destroyed.
C21_Witness ==
  /\ last.op = "onDestroy"
  /\ phase = "destroyed"
  /\ styleElement.present
  /\ ~styleElement.attached
  /\ styleElement.textContent.headerHeight = Num(20)
  /\ head = 0

\* a footnote update has just rendered
FootnotesUpdated == last.op = "updateFootnotes" /\ last.result /= "returned"

\* the footer of break i shows the footnote of the given id
ShownIn(i, id) ==
  \E n \in DOMAIN pagesEl[i].footnoteContainer.items :
    pagesEl[i].footnoteContainer.items[n].id = id

\* C22: after a footnote update each footnote's text is rendered in the
\* footer of the page its reference falls on and in no other footer.
C22_FootnotesOnOwnPage ==
  FootnotesUpdated
    => \A n \in DOMAIN footnotePlugin.footnotes :
         LET f == footnotePlugin.footnotes[n]
         IN  \A i \in DOMAIN pagesEl :
               ShownIn(i, f.id) <=> footnotePlugin.doc[f.pos].page = pagesEl[i].pageIndex

\* a resynthesis has just redrawn the footers of a document with a reference
Resynthesized ==
  last.rebuilt /\ footnotePlugin.installed /\ Len(footnotePlugin.doc) > 0

\* every footer of the widget holds the list of the plugin's footnotes
FootnotesRendered ==
  \A i \in DOMAIN pagesEl :
    pagesEl[i].footnoteContainer =
      [present |-> TRUE, items |-> FootnoteItems(footnotePlugin.footnotes)]

\* C23: after a resynthesis of a document that has a footnote reference the
\* plugin eventually renders its footnote list into every footer of the
\* widget in place, as long as its timers run (the plugin view is not
\* destroyed) and the document keeps a reference.
C23_FootnotesFollowResynthesis ==
  Resynthesized
    ~> (FootnotesRendered \/ Len(footnotePlugin.doc) = 0 \/ ~footnotePlugin.installed)

\* C23 witness: updatePageMargins resynthesized the widget of a document with
\* two footnotes, and the interval then rendered both into all its footers.
C23_Witness ==
  /\ last.op = "updateFootnotes"
  /\ last.result = "interval"
  /\ Len(footnotePlugin.footnotes) = 2
  /\ \A i \in DOMAIN pagesEl : pagesEl[i].headerHeight = Num(20)
  /\ Len(pagesEl) > ExtraPages
  /\ FootnotesRendered

Max(a, b) == IF a > b THEN a ELSE b

\* the ceiling of a / b for b > 0, from the floor and the remainder
CeilingOf(a, b) == IF a % b = 0 THEN a \div b ELSE (a \div b) + 1

\* H - max(0, P - 5) * (pageGap + pageHeaderHeight + pageFooterHeight + 2 * pageGapBorderSize)
AdjustedHeight(H, P, o) ==
  H - Max(0, P - 5) * (o.pageGap + o.pageHeaderHeight.v + o.pageFooterHeight.v
                       + 2 * o.pageGapBorderSize)

\* the estimate as the claim writes it
StatedEstimate(H, P, o) ==
  Max(0, CeilingOf(AdjustedHeight(H, P, o),
                   o.pageHeight - o.pageHeaderHeight.v - o.pageFooterHeight.v) - 1)

\* C24: for every sampled height H and every previously rendered break count
\* P the estimator returns max(0, ceil((H - max(0, P - 5) * (pageGap +
\* pageHeaderHeight + pageFooterHeight + 2 * pageGapBorderSize)) / (pageHeight
\* - pageHeaderHeight - pageFooterHeight)) - 1), which is never negative
\* (geometries with a positive content band, where the quotient is defined).
C24_EstimateFormula ==
  probe.done
    => /\ probe.r1 = StatedEstimate(probe.H1, probe.P, probe.o)
       /\ probe.r2 = StatedEstimate(probe.H2, probe.P, probe.o)
       /\ probe.r1 >= 0
       /\ probe.r2 >= 0

\* C24 witness: a previous widget of more than 5 breaks whose spacing exceeds
\* the smaller height (estimate 0) but not the larger one (estimate above 0).
C24_Witness ==
  /\ probe.done
  /\ probe.P > ExtraPages
  /\ probe.H1 > 0
  /\ AdjustedHeight(probe.H1, probe.P, probe.o) < 0
  /\ probe.r1 = 0
  /\ AdjustedHeight(probe.H2, probe.P, probe.o) > 0
  /\ probe.r2 > 1

\* C25: with content and geometry held fixed the estimated page counts of
\* repeated resyntheses become constant after finitely many of them, whatever
\* the break count they start from, and never return to a value they left.
C25_ResynthesisConverges ==
  LET c == probe.counts
  IN  /\ \A i, j, k \in DOMAIN c : (i < j /\ j < k /\ c[i] = c[k]) => c[j] = c[i]
      /\ Len(c) = MaxResyntheses => c[MaxResyntheses] = c[MaxResyntheses - 1]

-----------------------------------------------------------------------------
(* Rebuild of the boundary index after a resynthesis *)

\* the last step replaced the widget of a created editor
WidgetReplaced == phase = "created" /\ last.rebuilt

\* the last step was a boundary-index rebuild that found the widget
BoundaryRebuilt == last.op = "refreshPage" /\ last.result = "rebuilt"

\* C26: in a created editor every resynthesis of the widget is eventually
\* followed by a boundary-index rebuild (or the editor is destroyed), with the
\* mutation callback as the only step that is bound to happen
C26_RebuildFollowsResynthesis ==
  WidgetReplaced ~> (BoundaryRebuilt \/ phase /= "created")

-----------------------------------------------------------------------------
(* Order of the steps of a resynthesis *)

\* this step replaced the widget
ResynthesisStep == last'.rebuilt /\ engine' /= engine

\* this step rebuilt the boundary index over a widget it found
RebuildStep == last'.op = "refreshPage" /\ last'.result = "rebuilt" /\ engine' /= engine

\* no break of the widget carries the last-page mark
Unmarked(w) == \A i \in DOMAIN w : ~w[i].lastPage

\* C27: a resynthesis samples the height of the content in place, estimates
\* the page count from that sample, synthesizes the widget from that estimate
\* and leaves it unmarked; a boundary-index rebuild measures the breaks of the
\* widget the latest resynthesis rendered and marks that widget
C27_ResynthesisOrder ==
  [][/\ ResynthesisStep =>
          /\ last'.sampled = TotalHeight(content')
          /\ last'.estimated = EstimatePages(last'.sampled, Len(pagesEl), options')
          /\ pagesEl' = Synthesize(last'.estimated.v, options')
          /\ Unmarked(pagesEl')
     /\ RebuildStep =>
          /\ Len(last'.pageTops) = Len(pagesEl)
          /\ pagesEl' = refreshPageWidget(revision, pagesEl,
                                          Layout(last'.pageTops, last'.contentTops), options)
          /\ ~Unmarked(pagesEl')]_vars

\* a rebuild has marked a widget that a resynthesis over real content rendered
C27_Witness ==
  /\ BoundaryRebuilt
  /\ content /= <<>>
  /\ Len(pagesEl) > ExtraPages
  /\ Len(last.pageTops) = Len(pagesEl)
  /\ ~Unmarked(pagesEl)

-----------------------------------------------------------------------------
(* A rebuild requested while the container has no widget *)

\* C28: a boundary-index rebuild requested while the container has no widget
\* child returns without an error, leaving the minimum height as it was and no
\* break marked; requested on a container that has the widget, it sets the
\* minimum height for the pages that hold content and marks the last break
C28_MissingTargetSkipped ==
  [][/\ (last'.op \in {"refreshPage", "onCreate"} /\ engine' /= engine /\ ~HasTarget(pagesEl)) =>
          /\ last'.result /= "throw"
          /\ minHeight' = minHeight
          /\ Unmarked(pagesEl')
          /\ last'.op = "refreshPage" => (last'.result = "returned" /\ pagesEl' = pagesEl)
     /\ (last'.op = "refreshPage" /\ engine' /= engine /\ HasTarget(pagesEl)) =>
          /\ last'.result = "rebuilt"
          /\ minHeight' = Num(MinHeightOf(MaxPage(last'.classes), options))
          /\ MaxPage(last'.classes) + 1 < Len(pagesEl)
               => pagesEl'[MaxPage(last'.classes) + 2].lastPage]_vars

\* an editor whose rebuild at creation found no widget, and whose later
\* rebuild, with the widget drawn, set the minimum height and marked a break
C28_Witness ==
  /\ phase = "created"
  /\ BoundaryRebuilt
  /\ last.previous = Undefined
  /\ minHeight = Num(MinHeightOf(MaxPage(last.classes), options))
  /\ ~Unmarked(pagesEl)

-----------------------------------------------------------------------------
(* Resynthesis over an empty container *)

\* C29: a resynthesis over a container without content blocks samples a height
\* of 0, estimates 0 pages whatever the number of breaks rendered before, and
\* renders exactly the 5 breaks of headroom, without an error
C29_EmptyContentMinimal ==
  (last.rebuilt /\ content = <<>>) =>
    /\ last.result /= "throw"
    /\ last.sampled = 0
    /\ last.estimated = Num(0)
    /\ Len(pagesEl) = ExtraPages

-----------------------------------------------------------------------------
(* A resize resynthesis that fires after the geometry or the content changed *)

\* this step was the callback of a resize timer
TimerStep ==
  /\ last'.op = "resizeTimer"
  /\ \E t \in timers : t.remaining = 0 /\ timers' = timers \ {t}

\* C30: the resynthesis made by a resize timer is computed from the content
\* and the geometry the editor has when the timer fires
C30_ResizeReadsLiveState ==
  [][TimerStep =>
       /\ last'.rebuilt
       /\ last'.sampled = TotalHeight(content')
       /\ last'.estimated = EstimatePages(TotalHeight(content'), Len(pagesEl), options')
       /\ pagesEl' = createDecoration(content', Len(pagesEl), options')]_vars

\* a resize timer has fired after both a margin update and an edit that came
\* after the resize that scheduled it
C30_Witness ==
  /\ last.op = "resizeTimer"
  /\ last.rebuilt
  /\ observed.taken
  /\ observed.o /= options
  /\ TotalHeight(observed.blocks) /= TotalHeight(content)
  /\ last.sampled = TotalHeight(content)
  /\ pagesEl = Synthesize(last.estimated.v, options)
  /\ pagesEl /= Synthesize(last.estimated.v, observed.o)

-----------------------------------------------------------------------------
(* The last-page mark over successive rebuilds of one widget *)

\* the breaks of the widget that carry the last-page class
MarkedBreaks(w) == {i \in DOMAIN w : w[i].lastPage}

\* C31: at most one break of the rendered widget carries the last-page mark,
\* and after a rebuild no break before the terminal break carries one
C31_SingleTerminalMark ==
  /\ Cardinality(MarkedBreaks(pagesEl)) <= 1
  /\ Rebuilt => \A i \in MarkedBreaks(pagesEl) : i >= HighestBucket(last.classes) + 2

-----------------------------------------------------------------------------
(* Quiescence: the rebuild's own DOM writes and the mutation callback *)

\* C32: once external events stop, the mutation callback runs only finitely
\* often: from some point on the record queue stays empty
C32_Quiesces == <>[][mutationCallback]_vars => <>[]Drained

\* the callback has rebuilt the index twice in a row, the second time writing
\* the minimum height the first had written, and nothing is queued any more
C32_Witness ==
  /\ BoundaryRebuilt
  /\ last.previous = minHeight
  /\ Drained
  /\ ~Unmarked(pagesEl)

-----------------------------------------------------------------------------
(* After onDestroy *)

\* C34: once the editor is destroyed no resize timer is pending, and neither a
\* resize-tagged transaction nor a boundary-index rebuild has run since
C34_SilentAfterDestroy ==
  phase = "destroyed" =>
    /\ timers = {}
    /\ last.op \notin {"resizeTimer", "refreshPage"}

-----------------------------------------------------------------------------
(* After the footnote plugin view is destroyed *)

\* C35: once the plugin view is destroyed none of its timers is pending and
\* no footnote update has run since
C35_FootnotesSilentAfterDestroy ==
  phase = "destroyed" =>
    /\ ~footnotePlugin.initialTimer
    /\ ~footnotePlugin.updateTimer
    /\ ~footnotePlugin.interval
    /\ last.op /= "updateFootnotes"

-----------------------------------------------------------------------------
(* Two editors in one document *)

\* C33: a resynthesis of this editor estimates the page count from its own
\* content, its own geometry and the number of breaks of its own widget
C33_EstimateFromOwnState ==
  [][(last'.rebuilt /\ last'.op /= "peer" /\ engine' /= engine)
       => last'.estimated = EstimatePages(TotalHeight(content'), Len(pagesEl), options')]_vars

\* C36: the pending debounced footnote update of one editor goes away only in
\* a step of that editor, never in a step of the other one
C36_DebounceNotCancelledByPeer ==
  [][/\ (peer.updateTimer /\ ~peer.updateTimer') => last'.op = "peer"
     /\ (footnotePlugin.updateTimer /\ ~footnotePlugin.updateTimer') => last'.op /= "peer"]_vars

-----------------------------------------------------------------------------
(* Footnote numbering *)

\* the position in the document of the footnote an item stands for
PositionOf(item) ==
  LET n == CHOOSE m \in DOMAIN footnotePlugin.footnotes :
             footnotePlugin.footnotes[m].id = item.id
  IN  footnotePlugin.footnotes[n].pos

\* C37: after a footnote update the items of every footer list are numbered
\* 1..n, one per collected footnote, in strictly increasing position in the
\* document, and every reference whose id was collected shows the number of
\* the item of that id
C37_FootnoteNumbering ==
  FootnotesUpdated =>
    \A i \in DOMAIN pagesEl :
      LET items == pagesEl[i].footnoteContainer.items
      IN  /\ Len(items) = Len(footnotePlugin.footnotes)
          /\ \A n \in DOMAIN items : items[n].index = n
          /\ \A a, b \in DOMAIN items : a < b => PositionOf(items[a]) < PositionOf(items[b])
          /\ \A k \in DOMAIN footnotePlugin.doc :
               \A n \in DOMAIN items :
                 items[n].id = footnotePlugin.doc[k].id
                   => footnotePlugin.shown[k] = items[n].index

\* an update has numbered two footnotes and their references
C37_Witness ==
  /\ FootnotesUpdated
  /\ Len(footnotePlugin.footnotes) = 2
  /\ footnotePlugin.shown = <<1, 2>>
  /\ pagesEl[1].footnoteContainer.items[2].index = 2

-----------------------------------------------------------------------------
(* Footnote rendering *)

\* the ids of a footer's items, in the order of the list
ItemIds(i) ==
  [n \in DOMAIN pagesEl[i].footnoteContainer.items |->
     pagesEl[i].footnoteContainer.items[n].id]

\* C38: after a footnote update, however many went before it over the same
\* document, every page footer holds its one footnote container, the
\* container holds exactly one item per collected footnote, in the order of
\* the document and without a duplicate, and one more update changes nothing
C38_RenderingIdempotent ==
  FootnotesUpdated =>
    /\ \A i \in DOMAIN pagesEl :
         /\ pagesEl[i].footnoteContainer.present
         /\ ItemIds(i) = [n \in DOMAIN footnotePlugin.footnotes |->
                            footnotePlugin.footnotes[n].id]
         /\ \A a, b \in DOMAIN ItemIds(i) : a /= b => ItemIds(i)[a] /= ItemIds(i)[b]
    /\ updateFootnotes(pagesEl, footnotePlugin) = pagesEl

\* an update ran over footers that already held the two items of an earlier
\* update
C38_Witness ==
  /\ FootnotesUpdated
  /\ last.previous = Num(2)
  /\ Len(footnotePlugin.footnotes) = 2
  /\ Len(pagesEl[1].footnoteContainer.items) = 2

-----------------------------------------------------------------------------
(* Content above the first page top *)

\* the content element k of the last rebuild lies above the first non-zero
\* page-top offset
AboveFirstPage(k) ==
  /\ NonZeroOffsets(last.pageTops) /= <<>>
  /\ last.contentTops[k] < NonZeroOffsets(last.pageTops)[1]

\* C39: a boundary-index rebuild assigns a content element whose top offset is
\* smaller than the first non-zero page-top offset to no page bucket; when
\* every content element lies there the highest populated bucket is 0, the
\* break at index 1 carries the last-page mark and the minimum height is
\* 2 * pageHeight + (pageGap + 2 * pageGapBorderSize)
C39_AboveFirstPage ==
  (Rebuilt /\ last.result = "rebuilt")
    => /\ \A k \in DOMAIN last.contentTops : AboveFirstPage(k) => last.classes[k] = 0
       /\ (\A k \in DOMAIN last.contentTops : AboveFirstPage(k))
            => /\ HighestBucket(last.classes) = 0
               /\ 2 \in DOMAIN pagesEl
               /\ pagesEl[2].lastPage
               /\ minHeight = Num(2 * options.pageHeight
                                  + (options.pageGap + 2 * options.pageGapBorderSize))

\* the only content element was measured at 100, above the first page top at
\* 900: bucket 0, the break at index 1 marked, two pages and one gap
C39_Witness ==
  /\ Rebuilt
  /\ last.result = "rebuilt"
  /\ last.contentTops = <<100>>
  /\ NonZeroOffsets(last.pageTops)[1] = 900
  /\ last.classes = <<0>>
  /\ pagesEl[2].lastPage
  /\ minHeight = Num(1652)

====
